---- MODULE Spec2Model ----
(***************************************************************************)
(* Model of the mesh simulation backend (mvp2-crypto/backend/main.py with  *)
(* the ledger of mvp3-mesh-communication/backend/economy.py): the tick     *)
(* driver, the per-tick propagation engine, the contention resolver, the   *)
(* wallets and trackers, and the request handlers that change the world.   *)
(*                                                                         *)
(* Scheduling.  Every handler is an `async def` without a suspending       *)
(* await, and the tick suspends only in asyncio.sleep (the lock is never   *)
(* contended), so on the single event loop a handler runs only while the   *)
(* tick task is suspended.  The tick is nevertheless split at the points   *)
(* where the lock is taken and released and at each iteration of the outer *)
(* node loop, so that these intermediate states can be named.              *)
(*                                                                         *)
(* Scaling.  NUM_NODES, MAX_INVENTORY_SIZE, PACKET_TTL_SECONDS,            *)
(* UBI_INTERVAL_TICKS and the range limits are the program's constants     *)
(* scaled down; positions are cells of a line and the distance is the      *)
(* cell distance (the great-circle distance is an external oracle).        *)
(* Packet ids are uuids, which are only ever compared for equality: a new   *)
(* packet gets the least id that no packet in an inventory or in the       *)
(* tick's list of new packets carries.                                     *)
(***************************************************************************)
EXTENDS Integers, Sequences, FiniteSets, TLC

\* ---------------------------------------------------------------- bounds
NUM_NODES == 3
MaxPos == 1
MaxTime == 2
MaxTicks == 2
MaxRequests == 2

\* ------------------------------------------------------------- constants
MAX_INVENTORY_SIZE == 2
PACKET_TTL_SECONDS == 2
CRDSA_SLOTS_PER_TICK == 5
CRDSA_REPLICAS == 2
CRDSA_MAX_SIC_ITERATIONS == 10
INITIAL_CREDITS == 100
UBI_AMOUNT == 5
UBI_INTERVAL_TICKS == 2
LOGISTICS_SEND_COST == 2
LOGISTICS_RELAY_REWARD == 1
SAFETY_SEND_COST == 0
SAFETY_RELAY_REWARD == 10
DEFAULT_RANGE == 1
MIN_RANGE == 1
MAX_RANGE == 2
GRID == 2
MAX_MESSAGE_LENGTH == 3
MAX_LATITUDE == 4
MAX_LONGITUDE == 4

Nodes == 1..NUM_NODES
Positions == 0..MaxPos
MessageTypes == {"Logistics", "Safe"}
Texts == {<<"m", "s", "g">>}
TargetLists == {<<NUM_NODES>>}

\* ---------------------------------------------------------------- helpers
Min(a, b) == IF a < b THEN a ELSE b
Max(a, b) == IF a < b THEN b ELSE a
Abs(x) == IF x < 0 THEN -x ELSE x
Range(s) == {s[i] : i \in DOMAIN s}

RECURSIVE SumOver(_, _)
SumOver(f, S) ==
    IF S = {} THEN 0
    ELSE LET x == CHOOSE y \in S : TRUE IN f[x] + SumOver(f, S \ {x})

\* The elements of s at the positions in S, in their order in s.
RECURSIVE KeepIdx(_, _, _)
KeepIdx(s, S, i) ==
    IF i > Len(s) THEN <<>>
    ELSE (IF i \in S THEN <<s[i]>> ELSE <<>>) \o KeepIdx(s, S, i + 1)

\* The last n elements of s (s[-n:]).
LastN(s, n) == IF Len(s) <= n THEN s ELSE SubSeq(s, Len(s) - n + 1, Len(s))

VARIABLES
    node_inventories,    \* node id -> list of packets
    known_messages,      \* node id -> set of original message ids
    latitude,            \* node id -> position
    range,               \* node id -> broadcast range
    auto_relay,          \* node id -> cooperation flag
    CONNECTIONS,         \* set of pairs <<a, b>> with a < b
    wallet,              \* node id -> Wallet
    peer_stats,          \* node id -> (peer id -> [sent, relayed])
    global_economy,      \* EconomyTracker
    CRDSA_ENABLED,
    simulation_running,
    simulation_lock,     \* TRUE while the asyncio.Lock is held
    task_pc,             \* position of the background task
    active_ticks,        \* simulation_tick calls entered and not yet returned
    node_a,              \* the outer loop variable of the flooding phase
    new_packets,         \* the tick's list of (destination, copy)
    current_time,        \* the clock reading the tick's cleanup took
    now,                 \* the wall clock
    requests,            \* requests served so far
    response,            \* the last publish_message response
    call,                \* a call of a function on its own: arguments, result
    employees_db,        \* accountability backend: employee id -> record
    private_keys_db,     \* accountability backend: employee id -> private key
    notifications_db,    \* accountability backend: list of notifications
    notification_counter,
    keys_generated,      \* key pairs generate_key_pair has made so far
    utcnow               \* the accountability backend's clock

accountabilityVars == <<employees_db, private_keys_db, notifications_db,
                        notification_counter, keys_generated, utcnow>>

vars == <<node_inventories, known_messages, latitude, range, auto_relay,
          CONNECTIONS, wallet, peer_stats, global_economy, CRDSA_ENABLED,
          simulation_running, simulation_lock, task_pc, active_ticks, node_a,
          new_packets, current_time, now, requests, response, call,
          accountabilityVars>>

worldVars == <<node_inventories, known_messages, latitude, range, auto_relay,
               CONNECTIONS, wallet, peer_stats, global_economy, CRDSA_ENABLED>>
taskVars == <<simulation_running, simulation_lock, task_pc, active_ticks,
              node_a, new_packets, current_time>>

\* ------------------------------------------------------------ economy.py
NewWallet == [balance |-> INITIAL_CREDITS, total_earned |-> 0,
              total_spent |-> 0, transaction_count |-> 0]

add_credits(w, amount) ==
    IF amount > 0
    THEN [w EXCEPT !.balance = @ + amount, !.total_earned = @ + amount,
                   !.transaction_count = @ + 1]
    ELSE w

\* <<returned value, wallet after the call>>
spend_credits_nofree(w, amount) ==
    IF w.balance >= amount
    THEN <<TRUE, [w EXCEPT !.balance = @ - amount, !.total_spent = @ + amount,
                           !.transaction_count = @ + 1]>>
    ELSE <<FALSE, w>>

spend_credits_nocheck(w, amount) ==
    IF amount <= 0 THEN <<TRUE, w>>
    ELSE <<TRUE, [w EXCEPT !.balance = @ - amount, !.total_spent = @ + amount,
                           !.transaction_count = @ + 1]>>

spend_credits_strict(w, amount) ==
    IF amount <= 0 THEN <<TRUE, w>>
    ELSE IF w.balance > amount
    THEN <<TRUE, [w EXCEPT !.balance = @ - amount, !.total_spent = @ + amount,
                           !.transaction_count = @ + 1]>>
    ELSE <<FALSE, w>>

spend_credits_partial(w, amount) ==
    IF amount <= 0 THEN <<TRUE, w>>
    ELSE IF w.balance >= amount
    THEN <<TRUE, [w EXCEPT !.balance = @ - amount, !.total_spent = @ + amount,
                           !.transaction_count = @ + 1]>>
    ELSE <<FALSE, [w EXCEPT !.balance = 0, !.total_spent = @ + w.balance,
                            !.transaction_count = @ + 1]>>

spend_credits(w, amount) ==
    IF amount <= 0 THEN <<TRUE, w>>
    ELSE IF w.balance >= amount
    THEN <<TRUE, [w EXCEPT !.balance = @ - amount, !.total_spent = @ + amount,
                           !.transaction_count = @ + 1]>>
    ELSE <<FALSE, w>>

NewEconomy == [total_transactions |-> 0, total_fee_revenue |-> 0,
               total_safety_subsidies |-> 0, tick_count |-> 0]

record_transaction_any_relay(e, transaction_type, amount) ==
    [e EXCEPT !.total_transactions = @ + 1,
              !.total_fee_revenue =
                  IF transaction_type = "logistics_send" THEN @ + amount ELSE @,
              !.total_safety_subsidies =
                  IF transaction_type \in {"safety_relay", "logistics_relay"}
                  THEN @ + amount ELSE @]

record_transaction(e, transaction_type, amount) ==
    [e EXCEPT !.total_transactions = @ + 1,
              !.total_fee_revenue =
                  IF transaction_type = "logistics_send" THEN @ + amount ELSE @,
              !.total_safety_subsidies =
                  IF transaction_type = "safety_relay" THEN @ + amount ELSE @]

increment_tick(e) == [e EXCEPT !.tick_count = @ + 1]

NoStats == [sent |-> 0, relayed |-> 0]
StatsOf(ps, peer) == IF peer \in DOMAIN ps THEN ps[peer] ELSE NoStats

record_packet_sent_once(ps, peer) ==
    [q \in DOMAIN ps \cup {peer} |->
        IF q = peer THEN [StatsOf(ps, q) EXCEPT !.sent = 1] ELSE ps[q]]

record_packet_sent_to_peer(ps, peer) ==
    [q \in DOMAIN ps \cup {peer} |->
        IF q = peer THEN [StatsOf(ps, q) EXCEPT !.sent = @ + 1] ELSE ps[q]]

record_successful_relay_by_peer(ps, peer) ==
    [q \in DOMAIN ps \cup {peer} |->
        IF q = peer THEN [StatsOf(ps, q) EXCEPT !.relayed = @ + 1] ELSE ps[q]]

\* ------------------------------------------------- crypto_utils.py, packets
\* The hash of "sender:text:timestamp": equal inputs give equal ids.
generate_message_id(sender_id, message_text, timestamp) ==
    <<sender_id, message_text, timestamp>>

\* Positions are cells of a line, GRID apart.
calculate_distance(p, q) == Abs(p - q) * GRID

\* ------------------------------------- apply_crdsa_collision_simulation
\* What random.sample(range(SLOTS), min(REPLICAS, SLOTS)) can return, as a set.
SlotChoices_one_replica ==
    {{slot} : slot \in 0..(CRDSA_SLOTS_PER_TICK - 1)}

SlotChoices ==
    {S \in SUBSET (0..(CRDSA_SLOTS_PER_TICK - 1)) :
        Cardinality(S) = Min(CRDSA_REPLICAS, CRDSA_SLOTS_PER_TICK)}

\* A slot holds the packets drawn into it and not yet cancelled.
SlotOccupants(draw, unresolved, slot) == {i \in unresolved : slot \in draw[i]}

Singletons(draw, unresolved) ==
    {i \in unresolved :
        \E slot \in draw[i] : SlotOccupants(draw, unresolved, slot) = {i}}

\* The SIC loop: the packets still unresolved when it ends.
RECURSIVE SIC(_, _, _)
SIC(draw, unresolved, iteration) ==
    IF iteration >= CRDSA_MAX_SIC_ITERATIONS \/ unresolved = {} THEN unresolved
    ELSE LET newly_resolved == Singletons(draw, unresolved)
         IN IF newly_resolved = {} THEN unresolved
            ELSE SIC(draw, unresolved \ newly_resolved, iteration + 1)

survived_packets(packets, draw) ==
    KeepIdx(packets, (1..Len(packets)) \ SIC(draw, 1..Len(packets), 0), 1)

\* Every list one node's inventory can be replaced by, over all slot draws.
CrdsaOutcomes(packets) ==
    IF packets = <<>> THEN {<<>>}
    ELSE {survived_packets(packets, draw) :
             draw \in [1..Len(packets) -> SlotChoices]}

\* Every choice of one outcome per node, as a list indexed by node id.
RECURSIVE CrdsaAll(_, _)
CrdsaAll(inventories, n) ==
    IF n > NUM_NODES THEN {<<>>}
    ELSE {<<o>> \o rest : o \in CrdsaOutcomes(inventories[n]),
                          rest \in CrdsaAll(inventories, n + 1)}

apply_crdsa_collision_simulation_always(inventories) ==
    CrdsaAll(inventories, 1)

apply_crdsa_collision_simulation(inventories) ==
    IF ~CRDSA_ENABLED THEN {inventories} ELSE CrdsaAll(inventories, 1)

\* ------------------------------------------------ simulation_tick, cleanup
ttl_alive_inclusive(p, t) == (t - p.created_at) <= PACKET_TTL_SECONDS

ttl_alive(p, t) == (t - p.created_at) < PACKET_TTL_SECONDS

cleanup(packets, t) ==
    LET alive == SelectSeq(packets, LAMBDA p : ttl_alive(p, t))
    IN IF Len(alive) > MAX_INVENTORY_SIZE
       THEN LastN(alive, MAX_INVENTORY_SIZE) ELSE alive

distribute_ubi_every_tick(w, e) ==
    [n \in Nodes |-> add_credits(w[n], UBI_AMOUNT)]

distribute_ubi(w, e) ==
    IF e.tick_count % UBI_INTERVAL_TICKS = 0
    THEN [n \in Nodes |-> add_credits(w[n], UBI_AMOUNT)]
    ELSE w

\* ----------------------------------------------- simulation_tick, flooding
connected_via_range_any(a, b) == TRUE

connected_via_range(a, b) ==
    calculate_distance(latitude[a], latitude[b]) <= range[a]

connected_via_link_directed(a, b) == <<a, b>> \in CONNECTIONS

connected_via_link(a, b) == <<Min(a, b), Max(a, b)>> \in CONNECTIONS

anti_loop_off(packet, b) == TRUE

anti_loop_ok(packet, b) == b \notin Range(packet.history)

PacketsFor_selfless(a, b) ==
    IF a # b /\ (connected_via_range(a, b) \/ connected_via_link(a, b))
    THEN SelectSeq(node_inventories[a], LAMBDA p : anti_loop_ok(p, b))
    ELSE <<>>

\* The packets of a's inventory that a hands to b in this iteration.
PacketsFor(a, b) ==
    IF a # b /\ (connected_via_range(a, b) \/ connected_via_link(a, b))
             /\ auto_relay[a]
    THEN SelectSeq(node_inventories[a], LAMBDA p : anti_loop_ok(p, b))
    ELSE <<>>

\* The (destination, source packet) pairs of the inner loops, in loop order.
RECURSIVE SendsFrom(_, _)
SendsFrom(a, b) ==
    IF b > NUM_NODES THEN <<>>
    ELSE LET pf == PacketsFor(a, b)
         IN [i \in 1..Len(pf) |-> [dest |-> b, packet |-> pf[i]]]
            \o SendsFrom(a, b + 1)

relay_reward(packet) ==
    IF packet.message_type = "Safe" THEN SAFETY_RELAY_REWARD
    ELSE LOGISTICS_RELAY_REWARD

transaction_type(packet) ==
    IF packet.message_type = "Safe" THEN "safety_relay" ELSE "logistics_relay"

\* The packet ids carried by the packets of the inventories and of a list of
\* (destination, packet) pairs.
PacketIds(inv, np) ==
    UNION {{inv[n][i].packet_id : i \in DOMAIN inv[n]} : n \in DOMAIN inv}
        \cup {np[i][2].packet_id : i \in DOMAIN np}

\* str(uuid.uuid4()): an id that no packet carries.
uuid4(used) == CHOOSE k \in 0..Cardinality(used) :
                   k \notin used /\ \A j \in 0..(k - 1) : j \in used

new_packet_same_id(packet, b, packet_id) ==
    [packet EXCEPT !.history = Append(@, b)]

new_packet_no_hop(packet, b, packet_id) ==
    [packet EXCEPT !.packet_id = packet_id]

new_packet(packet, b, packet_id) ==
    [packet EXCEPT !.packet_id = packet_id, !.history = Append(@, b)]

\* new_packets after the copies of sends[i..] have been appended to it.
RECURSIVE BuildCopies(_, _, _)
BuildCopies(np, sends, i) ==
    IF i > Len(sends) THEN np
    ELSE BuildCopies(
             Append(np, <<sends[i].dest,
                          new_packet(sends[i].packet, sends[i].dest,
                                     uuid4(PacketIds(node_inventories, np)))>>),
             sends, i + 1)

RECURSIVE PayRelays(_, _, _)
PayRelays(w, sends, i) ==
    IF i > Len(sends) THEN w
    ELSE PayRelays(add_credits(w, relay_reward(sends[i].packet)), sends, i + 1)

RECURSIVE RecordRelays(_, _, _)
RecordRelays(e, sends, i) ==
    IF i > Len(sends) THEN e
    ELSE RecordRelays(
             record_transaction(e, transaction_type(sends[i].packet),
                                relay_reward(sends[i].packet)),
             sends, i + 1)

\* The reputation updates of one copy made by a for sends[i].dest.
RECURSIVE TrackRelays(_, _, _, _)
TrackRelays(ps, a, sends, i) ==
    IF i > Len(sends) THEN ps
    ELSE LET h == sends[i].packet.history
             previous_hop_id == h[Len(h)]
             ps1 == IF Len(h) > 1 /\ previous_hop_id # sends[i].packet.publisher_id
                    THEN [ps EXCEPT ![previous_hop_id] =
                             record_successful_relay_by_peer(@, a)]
                    ELSE ps
             ps2 == [ps1 EXCEPT ![a] =
                        record_packet_sent_to_peer(@, sends[i].dest)]
         IN TrackRelays(ps2, a, sends, i + 1)

existing(packets, packet) ==
    \E i \in DOMAIN packets :
        /\ packets[i].original_message_id = packet.original_message_id
        /\ packets[i].history = packet.history

\* The insertion loop over the whole list of new packets:
\* <<inventories, known messages>> after it.
RECURSIVE InsertAll(_, _, _, _)
InsertAll(inv, km, np, i) ==
    IF i > Len(np) THEN <<inv, km>>
    ELSE LET d == np[i][1]
             p == np[i][2]
         IN IF existing(inv[d], p) THEN InsertAll(inv, km, np, i + 1)
            ELSE InsertAll([inv EXCEPT ![d] = Append(@, p)],
                           [km EXCEPT ![d] = @ \cup {p.original_message_id}],
                           np, i + 1)

\* The accountability backend is another program: while this one runs, its
\* state is not there.
NoAccountability ==
    /\ employees_db = <<>>
    /\ private_keys_db = <<>>
    /\ notifications_db = <<>>
    /\ notification_counter = 0
    /\ keys_generated = 0
    /\ utcnow = 0

\* ------------------------------------------------------------------ Init
\* create_fixed_nodes() places the nodes at random; everything else is the
\* module's initial value, and lifespan() has created the lock and the task.
Init ==
    /\ node_inventories = [n \in Nodes |-> <<>>]
    /\ known_messages = [n \in Nodes |-> {}]
    /\ latitude \in [Nodes -> Positions]
    /\ range = [n \in Nodes |-> DEFAULT_RANGE]
    /\ auto_relay = [n \in Nodes |-> TRUE]
    /\ CONNECTIONS = {}
    /\ wallet = [n \in Nodes |-> NewWallet]
    /\ peer_stats = [n \in Nodes |-> <<>>]
    /\ global_economy = NewEconomy
    /\ CRDSA_ENABLED = TRUE
    /\ simulation_running = FALSE
    /\ simulation_lock = FALSE
    /\ task_pc = "created"
    /\ active_ticks = 0
    /\ node_a = 0
    /\ new_packets = <<>>
    /\ current_time = 0
    /\ now = 0
    /\ requests = 0
    /\ response = [op |-> "none", status |-> 0, node |-> 0,
                   message_type |-> "", balance |-> 0, packets |-> <<>>]
    /\ call = [op |-> "none"]
    /\ NoAccountability

\* ----------------------------------------------------------- tick driver
\* The task is suspended (not yet started, in asyncio.sleep, or cancelled):
\* only then does the event loop run anything else.
Suspended == task_pc \in {"created", "sleeping", "cancelled"}

start_simulation ==
    /\ task_pc = "created"
    /\ simulation_running' = TRUE
    /\ task_pc' = "while"
    /\ UNCHANGED <<worldVars, simulation_lock, active_ticks, node_a,
                   new_packets, current_time, now, requests, response, call,
                   accountabilityVars>>

\* `while simulation_running: await simulation_tick(); await asyncio.sleep(3)`:
\* the loop calls the tick again only when the sleep that follows the
\* previous call has returned.
driver_fire_and_forget == task_pc \in {"while", "sleeping", "flood"}

driver_may_call_tick == task_pc \in {"while", "sleeping"}

\* simulation_tick is entered and `async with simulation_lock` acquires.
TickAcquire ==
    /\ driver_may_call_tick
    /\ simulation_running
    /\ ~simulation_lock
    /\ global_economy.tick_count < MaxTicks
    /\ simulation_lock' = TRUE
    /\ task_pc' = "locked"
    /\ active_ticks' = active_ticks + 1
    /\ UNCHANGED <<worldVars, simulation_running, node_a, new_packets,
                   current_time, now, requests, response, call,
                   accountabilityVars>>

\* The body of the `async with`: tick counter, UBI, cleanup, contention; the
\* lock is released when the block ends, before the flooding loops.
TickMaintain ==
    /\ task_pc = "locked"
    /\ LET e1 == increment_tick(global_economy)
           cleaned == [n \in Nodes |-> cleanup(node_inventories[n], now)]
       IN /\ global_economy' = e1
          /\ wallet' = distribute_ubi(wallet, e1)
          /\ current_time' = now
          /\ \E out \in apply_crdsa_collision_simulation(cleaned) :
                node_inventories' = out
    /\ simulation_lock' = FALSE
    /\ new_packets' = <<>>
    /\ node_a' = 1
    /\ task_pc' = "flood"
    /\ UNCHANGED <<known_messages, latitude, range, auto_relay, CONNECTIONS,
                   peer_stats, CRDSA_ENABLED, simulation_running, active_ticks,
                   now, requests, response, call,
                   accountabilityVars>>

\* One iteration of `for node_a in NODES`: the inner loops over node_b and the
\* packets, then the insertion loop, which sits inside the outer loop and
\* walks the whole list of new packets each time.
TickFlood ==
    /\ task_pc = "flood"
    /\ node_a <= NUM_NODES
    /\ LET sends == SendsFrom(node_a, 1)
           np == BuildCopies(new_packets, sends, 1)
           ins == InsertAll(node_inventories, known_messages, np, 1)
       IN /\ wallet' = [wallet EXCEPT ![node_a] = PayRelays(@, sends, 1)]
          /\ global_economy' = RecordRelays(global_economy, sends, 1)
          /\ peer_stats' = TrackRelays(peer_stats, node_a, sends, 1)
          /\ new_packets' = np
          /\ node_inventories' = ins[1]
          /\ known_messages' = ins[2]
    /\ node_a' = node_a + 1
    /\ UNCHANGED <<latitude, range, auto_relay, CONNECTIONS, CRDSA_ENABLED,
                   simulation_running, simulation_lock, task_pc, active_ticks,
                   current_time, now, requests, response, call,
                   accountabilityVars>>

\* The outer loop is over: simulation_tick returns, the task sleeps.
TickReturn ==
    /\ task_pc = "flood"
    /\ node_a > NUM_NODES
    /\ task_pc' = "sleeping"
    /\ active_ticks' = active_ticks - 1
    /\ new_packets' = <<>>
    /\ node_a' = 0
    /\ UNCHANGED <<worldVars, simulation_running, simulation_lock,
                   current_time, now, requests, response, call,
                   accountabilityVars>>

\* lifespan() shutdown: stop_simulation(), then task.cancel(), which takes
\* effect at the await the task is suspended in: the task has not run yet, or
\* it is in asyncio.sleep.  simulation_tick has no await that suspends.
task_cancel_preempts == task_pc \in {"created", "sleeping", "flood"}

task_cancel_lands == task_pc \in {"created", "sleeping"}

Shutdown ==
    /\ task_cancel_lands
    /\ simulation_running' = FALSE
    /\ task_pc' = "cancelled"
    /\ UNCHANGED <<worldVars, simulation_lock, active_ticks, node_a,
                   new_packets, current_time, now, requests, response, call,
                   accountabilityVars>>

\* The wall clock moves on.
Tock ==
    /\ Suspended
    /\ now < MaxTime
    /\ now' = now + 1
    /\ UNCHANGED <<worldVars, taskVars, requests, response, call,
                   accountabilityVars>>

\* ------------------------------------------------------ request handlers
\* A request is served while the server is up and the tick task is suspended.
Serving == task_pc \in {"created", "sleeping"} /\ requests < MaxRequests

\* What is kept of an answer: the handler and the status code; from
\* publish_message, the publisher, the message class and the balance left;
\* from get_node_inventory, the formatted packets.
Reply(op, status, node, mtype, balance) ==
    /\ requests' = requests + 1
    /\ response' = [op |-> op, status |-> status, node |-> node,
                    message_type |-> mtype, balance |-> balance,
                    packets |-> <<>>]
    /\ UNCHANGED <<call, accountabilityVars>>

\* raise HTTPException(status_code=...), or the 422 of a request that fails
\* the validators of its pydantic model.
Reject(op, status, node) == Reply(op, status, node, "", 0)

\* The answers of the other handlers' successful requests are not kept.
Served ==
    requests' = requests + 1 /\ UNCHANGED <<response, call, accountabilityVars>>

\* PublishMessageRequest's field validators.
validate_message_type(v) == v \in {"Logistics", "Help", "Safe"}

validate_message_text(v) == Len(v) # 0 /\ Len(v) <= MAX_MESSAGE_LENGTH

validate_target_nodes(v) ==
    /\ v # <<>>
    /\ Len(v) <= NUM_NODES
    /\ \A i \in DOMAIN v : ~(v[i] < 1 \/ v[i] > NUM_NODES)

validate_publisher_id(v) == ~(v < 1 \/ v > NUM_NODES)

PublishMessageRequest(publisher_node_id, message_type, message_text, target_node_ids) ==
    /\ validate_message_type(message_type)
    /\ validate_message_text(message_text)
    /\ validate_target_nodes(target_node_ids)
    /\ validate_publisher_id(publisher_node_id)

send_cost(mtype) ==
    IF mtype = "Safe" THEN SAFETY_SEND_COST ELSE LOGISTICS_SEND_COST

publish_message(publisher_node_id, message_type, message_text, target_node_ids) ==
    /\ Serving
    /\ IF ~PublishMessageRequest(publisher_node_id, message_type, message_text,
                                 target_node_ids)
       THEN /\ Reject("publish_message", 422, publisher_node_id)
            /\ UNCHANGED <<worldVars, taskVars, now>>
       ELSE IF publisher_node_id \notin 1..NUM_NODES
       THEN /\ Reject("publish_message", 404, publisher_node_id)
            /\ UNCHANGED <<worldVars, taskVars, now>>
       ELSE IF \E i \in DOMAIN target_node_ids :
                   target_node_ids[i] \notin 1..NUM_NODES
       THEN /\ Reject("publish_message", 404, publisher_node_id)
            /\ UNCHANGED <<worldVars, taskVars, now>>
       ELSE
       LET paid == spend_credits(wallet[publisher_node_id], send_cost(message_type))
           original_message_id ==
               generate_message_id(publisher_node_id, message_text, now)
           packet == [packet_id |-> uuid4(PacketIds(node_inventories, new_packets)),
                      original_message_id |-> original_message_id,
                      publisher_id |-> publisher_node_id,
                      target_ids |-> target_node_ids,
                      message_text |-> message_text,
                      history |-> <<publisher_node_id>>,
                      created_at |-> now,
                      message_type |-> message_type]
       IN IF ~paid[1]
          THEN /\ Reply("publish_message", 402, publisher_node_id, message_type,
                        wallet[publisher_node_id].balance)
               /\ wallet' = [wallet EXCEPT ![publisher_node_id] = paid[2]]
               /\ UNCHANGED <<node_inventories, known_messages, latitude,
                              range, auto_relay, CONNECTIONS, peer_stats,
                              global_economy, CRDSA_ENABLED, taskVars, now>>
          ELSE /\ wallet' = [wallet EXCEPT ![publisher_node_id] = paid[2]]
               /\ global_economy' =
                      IF message_type # "Safe"
                      THEN record_transaction(global_economy, "logistics_send",
                                              send_cost(message_type))
                      ELSE global_economy
               /\ known_messages' = [known_messages EXCEPT
                      ![publisher_node_id] = @ \cup {original_message_id}]
               /\ node_inventories' = [node_inventories EXCEPT
                      ![publisher_node_id] = Append(@, packet)]
               /\ Reply("publish_message", 200, publisher_node_id, message_type,
                        paid[2].balance)
               /\ UNCHANGED <<latitude, range, auto_relay, CONNECTIONS,
                              peer_stats, CRDSA_ENABLED, taskVars, now>>

test_credit_exhaustion(node_id) ==
    /\ Serving
    /\ IF node_id < 1 \/ node_id > NUM_NODES
       THEN /\ Reject("test_credit_exhaustion", 404, node_id)
            /\ UNCHANGED wallet
       ELSE /\ wallet' = [wallet EXCEPT ![node_id].balance = 0]
            /\ Served
    /\ UNCHANGED <<node_inventories, known_messages, latitude, range,
                   auto_relay, CONNECTIONS, peer_stats, global_economy,
                   CRDSA_ENABLED, taskVars, now>>

attack_clear_inventories ==
    /\ Serving
    /\ node_inventories' = [n \in Nodes |-> <<>>]
    /\ Served
    /\ UNCHANGED <<known_messages, latitude, range, auto_relay, CONNECTIONS,
                   wallet, peer_stats, global_economy, CRDSA_ENABLED, taskVars,
                   now>>

update_node_auto_relay(node_id, flag) ==
    /\ Serving
    /\ IF node_id \notin 1..NUM_NODES
       THEN /\ Reject("update_node_auto_relay", 404, node_id)
            /\ UNCHANGED auto_relay
       ELSE /\ auto_relay' = [auto_relay EXCEPT ![node_id] = flag]
            /\ Served
    /\ UNCHANGED <<node_inventories, known_messages, latitude, range,
                   CONNECTIONS, wallet, peer_stats, global_economy,
                   CRDSA_ENABLED, taskVars, now>>

update_node_range(node_id, new_range) ==
    /\ Serving
    /\ IF node_id \notin 1..NUM_NODES
       THEN /\ Reject("update_node_range", 404, node_id)
            /\ UNCHANGED range
       ELSE IF new_range < MIN_RANGE \/ new_range > MAX_RANGE
       THEN /\ Reject("update_node_range", 400, node_id)
            /\ UNCHANGED range
       ELSE /\ range' = [range EXCEPT ![node_id] = new_range]
            /\ Served
    /\ UNCHANGED <<node_inventories, known_messages, latitude, auto_relay,
                   CONNECTIONS, wallet, peer_stats, global_economy,
                   CRDSA_ENABLED, taskVars, now>>

\* The model's plane is a line: the longitude is validated and otherwise
\* plays no part in a distance.
update_node_position(node_id, new_latitude, new_longitude) ==
    /\ Serving
    /\ IF node_id < 1 \/ node_id > NUM_NODES
       THEN /\ Reject("update_node_position", 404, node_id)
            /\ UNCHANGED latitude
       ELSE IF ~(-MAX_LATITUDE <= new_latitude /\ new_latitude <= MAX_LATITUDE)
       THEN /\ Reject("update_node_position", 400, node_id)
            /\ UNCHANGED latitude
       ELSE IF ~(-MAX_LONGITUDE <= new_longitude /\ new_longitude <= MAX_LONGITUDE)
       THEN /\ Reject("update_node_position", 400, node_id)
            /\ UNCHANGED latitude
       ELSE /\ latitude' = [latitude EXCEPT ![node_id] = new_latitude]
            /\ Served
    /\ UNCHANGED <<node_inventories, known_messages, range, auto_relay,
                   CONNECTIONS, wallet, peer_stats, global_economy,
                   CRDSA_ENABLED, taskVars, now>>

add_connection(a, b) ==
    /\ Serving
    /\ IF a \notin 1..NUM_NODES \/ b \notin 1..NUM_NODES
       THEN /\ Reject("add_connection", 404, a)
            /\ UNCHANGED CONNECTIONS
       ELSE IF a = b
       THEN /\ Reject("add_connection", 400, a)
            /\ UNCHANGED CONNECTIONS
       ELSE /\ CONNECTIONS' = CONNECTIONS \cup {<<Min(a, b), Max(a, b)>>}
            /\ Served
    /\ UNCHANGED <<node_inventories, known_messages, latitude, range,
                   auto_relay, wallet, peer_stats, global_economy,
                   CRDSA_ENABLED, taskVars, now>>

remove_connection(a, b) ==
    /\ Serving
    /\ IF <<Min(a, b), Max(a, b)>> \in CONNECTIONS
       THEN /\ CONNECTIONS' = CONNECTIONS \ {<<Min(a, b), Max(a, b)>>}
            /\ Served
       ELSE /\ Reject("remove_connection", 404, a)
            /\ UNCHANGED CONNECTIONS
    /\ UNCHANGED <<node_inventories, known_messages, latitude, range,
                   auto_relay, wallet, peer_stats, global_economy,
                   CRDSA_ENABLED, taskVars, now>>

update_crdsa_config(enabled) ==
    /\ Serving
    /\ CRDSA_ENABLED' = enabled
    /\ Served
    /\ UNCHANGED <<node_inventories, known_messages, latitude, range,
                   auto_relay, CONNECTIONS, wallet, peer_stats, global_economy,
                   taskVars, now>>

regenerate_nodes ==
    /\ Serving
    /\ latitude' \in [Nodes -> Positions]
    /\ range' = [n \in Nodes |-> DEFAULT_RANGE]
    /\ auto_relay' = [n \in Nodes |-> TRUE]
    /\ wallet' = [n \in Nodes |-> NewWallet]
    /\ peer_stats' = [n \in Nodes |-> <<>>]
    /\ known_messages' = [n \in Nodes |-> {}]
    /\ node_inventories' = [n \in Nodes |-> <<>>]
    /\ Served
    /\ UNCHANGED <<CONNECTIONS, global_economy, CRDSA_ENABLED, taskVars, now>>

\* generate_hash(): "[HASH] " and 16 hex digits of a fresh uuid4, whatever
\* the text is; the values it can return.
Hashes == {<<"[HASH]", h>> : h \in 1..2}

generate_hash_of_text(message_text) == {<<"[HASH]", message_text>>}

generate_hash(message_text) == Hashes

\* The entries get_node_inventory can return for a packet of node_id.
formatted_packet(node_id, packet) ==
    LET can_decrypt == node_id \in Range(packet.target_ids)
    IN {[packet_id |-> packet.packet_id,
         original_message_id |-> packet.original_message_id,
         publisher_id |-> packet.publisher_id,
         target_ids |-> packet.target_ids,
         history |-> packet.history,
         can_decrypt |-> can_decrypt,
         content |-> content] :
           content \in IF can_decrypt THEN {packet.message_text}
                       ELSE generate_hash(packet.message_text)}

get_node_inventory(node_id) ==
    /\ Serving
    /\ IF node_id \notin 1..NUM_NODES
       THEN Reject("get_node_inventory", 404, node_id)
       ELSE LET packets == node_inventories[node_id]
            IN \E formatted_packets \in
                      [DOMAIN packets ->
                          UNION {formatted_packet(node_id, packets[i]) :
                                    i \in DOMAIN packets}] :
                  /\ \A i \in DOMAIN packets :
                         formatted_packets[i]
                             \in formatted_packet(node_id, packets[i])
                  /\ requests' = requests + 1
                  /\ response' = [op |-> "get_node_inventory", status |-> 200,
                                  node |-> node_id, message_type |-> "",
                                  balance |-> 0, packets |-> formatted_packets]
                  /\ UNCHANGED <<call, accountabilityVars>>
    /\ UNCHANGED <<worldVars, taskVars, now>>

\* Where the partition puts its two groups: around (47.6, -122.3) and around
\* (40.7, -74.0), each node random.uniform(-0.5, 0.5) off the centre.
WestCoast == {-MAX_LATITUDE, 1 - MAX_LATITUDE}

EastCoast == {MAX_LATITUDE - 1, MAX_LATITUDE}

Partitioned(group_a_nodes, group_b_nodes) ==
    {place \in [Range(group_a_nodes \o group_b_nodes) -> WestCoast \cup EastCoast] :
        /\ \A n \in Range(group_a_nodes) : place[n] \in WestCoast
        /\ \A n \in Range(group_b_nodes) : place[n] \in EastCoast}

\* A variant that checks each id as it comes to it, after moving the ones
\* before it.
attack_partition_network_lazy(group_a_nodes, group_b_nodes) ==
    /\ Serving
    /\ LET all_nodes == group_a_nodes \o group_b_nodes
           bad == {i \in DOMAIN all_nodes :
                      all_nodes[i] < 1 \/ all_nodes[i] > NUM_NODES}
           first_bad == IF bad = {} THEN Len(all_nodes) + 1
                        ELSE CHOOSE i \in bad : \A j \in bad : i <= j
           moved == {all_nodes[i] : i \in 1..(first_bad - 1)}
       IN /\ \E c \in WestCoast \cup EastCoast :
                 latitude' = [n \in Nodes |->
                                 IF n \in moved THEN c ELSE latitude[n]]
          /\ IF bad # {} \/ Cardinality(Range(all_nodes)) # Len(all_nodes)
             THEN Reject("attack_partition_network", 400, 0)
             ELSE Served
    /\ UNCHANGED <<node_inventories, known_messages, range, auto_relay,
                   CONNECTIONS, wallet, peer_stats, global_economy,
                   CRDSA_ENABLED, taskVars, now>>

attack_partition_network(group_a_nodes, group_b_nodes) ==
    /\ Serving
    /\ LET all_nodes == group_a_nodes \o group_b_nodes
       IN IF Cardinality(Range(all_nodes)) # Len(all_nodes)
          THEN /\ Reject("attack_partition_network", 400, 0)
               /\ UNCHANGED latitude
          ELSE IF \E i \in DOMAIN all_nodes :
                      all_nodes[i] < 1 \/ all_nodes[i] > NUM_NODES
          THEN /\ Reject("attack_partition_network", 400, 0)
               /\ UNCHANGED latitude
          ELSE /\ \E place \in Partitioned(group_a_nodes, group_b_nodes) :
                      latitude' = [n \in Nodes |->
                                      IF n \in DOMAIN place THEN place[n]
                                      ELSE latitude[n]]
               /\ Served
    /\ UNCHANGED <<node_inventories, known_messages, range, auto_relay,
                   CONNECTIONS, wallet, peer_stats, global_economy,
                   CRDSA_ENABLED, taskVars, now>>

Request ==
    \/ \E p \in Nodes, t \in MessageTypes, m \in Texts, tg \in TargetLists :
           publish_message(p, t, m, tg)
    \/ \E n \in Nodes : test_credit_exhaustion(n)
    \/ attack_clear_inventories
    \/ \E n \in Nodes, f \in BOOLEAN : update_node_auto_relay(n, f)
    \/ \E n \in Nodes, r \in MIN_RANGE..MAX_RANGE : update_node_range(n, r)
    \/ \E n \in Nodes, q \in Positions : update_node_position(n, q, 0)
    \/ \E a \in Nodes : \E b \in Nodes \ {a} : add_connection(a, b)
    \/ \E a \in Nodes, b \in Nodes : remove_connection(a, b)
    \/ \E f \in BOOLEAN : update_crdsa_config(f)
    \/ regenerate_nodes

Tick == TickAcquire \/ TickMaintain \/ TickFlood \/ TickReturn

Next == start_simulation \/ Tick \/ Shutdown \/ Tock \/ Request

Spec == Init /\ [][Next]_vars

\* ------------------------------------------------- the tampering attack
\* original_text[:-1] + ("X" if original_text[-1] != "X" else "Y"), and
\* "TAMPERED" for an empty text.
tampered_text(original_text) ==
    IF Len(original_text) > 0
    THEN SubSeq(original_text, 1, Len(original_text) - 1)
         \o <<IF original_text[Len(original_text)] # "X" THEN "X" ELSE "Y">>
    ELSE <<"T", "A", "M", "P", "E", "R", "E", "D">>

\* The first packet with the id, in the order of the two loops:
\* <<node, position>>, or <<0, 0>> when no inventory holds one.
find_packet(packet_id) ==
    LET holders == {n \in Nodes : \E i \in DOMAIN node_inventories[n] :
                       node_inventories[n][i].packet_id = packet_id}
    IN IF holders = {} THEN <<0, 0>>
       ELSE LET n == CHOOSE h \in holders : \A g \in holders : h <= g
                at == {i \in DOMAIN node_inventories[n] :
                          node_inventories[n][i].packet_id = packet_id}
            IN <<n, CHOOSE i \in at : \A j \in at : i <= j>>

attack_tamper_packet(packet_id) ==
    /\ Serving
    /\ LET found == find_packet(packet_id)
       IN IF found = <<0, 0>>
          THEN /\ Reject("attack_tamper_packet", 404, 0)
               /\ UNCHANGED node_inventories
          ELSE /\ node_inventories' =
                      [node_inventories EXCEPT
                          ![found[1]][found[2]].message_text = tampered_text(@)]
               /\ Reply("attack_tamper_packet", 200, found[1], "", 0)
    /\ UNCHANGED <<known_messages, latitude, range, auto_relay, CONNECTIONS,
                   wallet, peer_stats, global_economy, CRDSA_ENABLED, taskVars,
                   now>>

\* The attack in the running simulation: messages are published and packets
\* tampered with between ticks.
MaxTamperId == 1

AttackRequest ==
    \/ \E p \in Nodes, t \in MessageTypes, m \in Texts, tg \in TargetLists :
           publish_message(p, t, m, tg)
    \/ \E packet_id \in 0..MaxTamperId : attack_tamper_packet(packet_id)

AttackNext == start_simulation \/ Tick \/ Shutdown \/ Tock \/ AttackRequest

AttackSpec == Init /\ [][AttackNext]_vars

\* ------------------------------------------- the handlers, on any request
\* What a client can put in a request: ids next to the valid ones, a message
\* class, texts and target lists the validators refuse, ranges and
\* coordinates beyond the limits, and any two short groups of ids.
NodeIds == 0..(NUM_NODES + 1)

AnyTypes == MessageTypes \cup {"Other"}

AnyTexts == Texts \cup {<<>>, <<"l", "o", "n", "g">>}

AnyTargetLists ==
    TargetLists \cup {<<>>, <<NUM_NODES + 1>>, <<1, 0>>, <<1, 2, 3, 1>>}

AnyRanges == (MIN_RANGE - 1)..(MAX_RANGE + 1)

AnyLatitudes ==
    Positions \cup {-MAX_LATITUDE - 1, -MAX_LATITUDE, MAX_LATITUDE, MAX_LATITUDE + 1}

AnyLongitudes == {-MAX_LONGITUDE - 1, 0, MAX_LONGITUDE + 1}

\* The requests tried: the valid ones, and those with one field out of order.
PublishRequests ==
    (Nodes \X MessageTypes \X Texts \X TargetLists)
    \cup ((NodeIds \ Nodes) \X {"Logistics"} \X Texts \X TargetLists)
    \cup ({1} \X (AnyTypes \ MessageTypes) \X Texts \X TargetLists)
    \cup ({1} \X {"Logistics"} \X (AnyTexts \ Texts) \X TargetLists)
    \cup ({1} \X {"Logistics"} \X Texts \X (AnyTargetLists \ TargetLists))

PositionRequests ==
    (NodeIds \X (AnyLatitudes \cap (-MAX_LATITUDE..MAX_LATITUDE)) \X {0})
    \cup (Nodes \X AnyLatitudes \X {0})
    \cup (Nodes \X Positions \X AnyLongitudes)

MaxGroup == 2
GroupIds == {1, NUM_NODES, NUM_NODES + 1}
PartitionRequests ==
    UNION {[1..k -> GroupIds] \X [1..j -> GroupIds] :
              <<k, j>> \in {kj \in (0..MaxGroup) \X (0..MaxGroup) :
                                kj[1] + kj[2] <= MaxGroup}}

AnyRequest ==
    \/ \E r \in PublishRequests : publish_message(r[1], r[2], r[3], r[4])
    \/ \E n \in NodeIds : test_credit_exhaustion(n)
    \/ attack_clear_inventories
    \/ \E n \in NodeIds, f \in BOOLEAN : update_node_auto_relay(n, f)
    \/ \E n \in NodeIds, r \in AnyRanges : update_node_range(n, r)
    \/ \E r \in PositionRequests : update_node_position(r[1], r[2], r[3])
    \/ \E a \in NodeIds, b \in NodeIds : add_connection(a, b)
    \/ \E a \in NodeIds, b \in NodeIds : remove_connection(a, b)
    \/ \E f \in BOOLEAN : update_crdsa_config(f)
    \/ regenerate_nodes
    \/ \E r \in PartitionRequests : attack_partition_network(r[1], r[2])
    \/ \E n \in NodeIds : get_node_inventory(n)

HandlerSpec == Init /\ [][AnyRequest]_vars

\* ============================================ functions called on their own
\* The world as the module creates it, all nodes at one place: the state in
\* which a function of economy.py or the resolver is exercised on its own.
MeshAtRest ==
    /\ node_inventories = [n \in Nodes |-> <<>>]
    /\ known_messages = [n \in Nodes |-> {}]
    /\ latitude = [n \in Nodes |-> 0]
    /\ range = [n \in Nodes |-> DEFAULT_RANGE]
    /\ auto_relay = [n \in Nodes |-> TRUE]
    /\ CONNECTIONS = {}
    /\ wallet = [n \in Nodes |-> NewWallet]
    /\ peer_stats = [n \in Nodes |-> <<>>]
    /\ global_economy = NewEconomy
    /\ CRDSA_ENABLED = TRUE
    /\ simulation_running = FALSE
    /\ simulation_lock = FALSE
    /\ task_pc = "created"
    /\ active_ticks = 0
    /\ node_a = 0
    /\ new_packets = <<>>
    /\ current_time = 0
    /\ now = 0
    /\ requests = 0
    /\ response = [op |-> "none", status |-> 0, node |-> 0,
                   message_type |-> "", balance |-> 0, packets |-> <<>>]

AtRest == MeshAtRest /\ NoAccountability

Rests ==
    UNCHANGED <<worldVars, taskVars, now, requests, response,
                accountabilityVars>>

\* ---------------------------------- ReputationManager.get_reputation_score
\* A score is the fraction <<numerator, denominator>>; 1.0 is <<1, 1>>.
MaxCount == 7

get_reputation_score_unclamped(ps, peer_id) ==
    IF peer_id \notin DOMAIN ps THEN <<1, 1>>
    ELSE IF ps[peer_id].sent = 0 THEN <<1, 1>>
    ELSE <<ps[peer_id].relayed, ps[peer_id].sent>>

get_reputation_score(ps, peer_id) ==
    IF peer_id \notin DOMAIN ps THEN <<1, 1>>
    ELSE LET stats == ps[peer_id]
         IN IF stats.sent = 0 THEN <<1, 1>>
            ELSE LET reputation == <<stats.relayed, stats.sent>>
                 IN IF reputation[1] < reputation[2] THEN reputation
                    ELSE <<1, 1>>

\* A tracker with no entry for the peer, or with any counters for it.
ScoreInit ==
    /\ AtRest
    /\ \E peer_id \in Nodes :
          \/ call = [op |-> "get_reputation_score", peer_stats |-> <<>>,
                     peer_id |-> peer_id, returned |-> FALSE, score |-> <<0, 1>>]
          \/ \E sent \in 0..MaxCount, relayed \in 0..MaxCount :
                call = [op |-> "get_reputation_score",
                        peer_stats |-> [q \in {peer_id} |->
                                           [sent |-> sent, relayed |-> relayed]],
                        peer_id |-> peer_id, returned |-> FALSE,
                        score |-> <<0, 1>>]

ScoreCall ==
    /\ call.op = "get_reputation_score"
    /\ ~call.returned
    /\ call' = [call EXCEPT
                   !.score = get_reputation_score(call.peer_stats, call.peer_id),
                   !.returned = TRUE]
    /\ Rests

ScoreSpec == ScoreInit /\ [][ScoreCall]_vars

\* ------------------------------------------------- Wallet.spend_credits
MaxBalance == 9
MaxAmount == 10

\* A wallet that has earned its balance, and any amount around it.
WalletInit ==
    /\ AtRest
    /\ \E balance \in 0..MaxBalance, amount \in (-1)..MaxAmount :
          call = [op |-> "spend_credits",
                  before |-> [NewWallet EXCEPT !.balance = balance],
                  amount |-> amount, returned |-> FALSE, value |-> FALSE,
                  after |-> [NewWallet EXCEPT !.balance = balance]]

SpendCall ==
    /\ call.op = "spend_credits"
    /\ ~call.returned
    /\ LET r == spend_credits(call.before, call.amount)
       IN call' = [call EXCEPT !.value = r[1], !.after = r[2],
                               !.returned = TRUE]
    /\ Rests

WalletSpec == WalletInit /\ [][SpendCall]_vars

\* ----------------------- apply_crdsa_collision_simulation, one node's loop
\* The resolver on one node's packets, step by step as the code runs it: the
\* slot lists, the resolved and unresolved sets and the loop counter.  The
\* packets are 1..n, each standing for its packet id.
MaxPackets == 6

Slots == 0..(CRDSA_SLOTS_PER_TICK - 1)

\* The draws of all packets: every draw for up to FullDrawPackets packets;
\* for more, the resolver treating all slots alike, the first packet is given
\* the first slots and the others any slots.
FullDrawPackets == 4

FirstDraws(n) ==
    IF n <= FullDrawPackets THEN SlotChoices
    ELSE {0..(Min(CRDSA_REPLICAS, CRDSA_SLOTS_PER_TICK) - 1)}

Draws(n) ==
    IF n = 0 THEN {<<>>}
    ELSE {[i \in 1..n |-> IF i = 1 THEN first ELSE rest[i]] :
             first \in FirstDraws(n), rest \in [2..n -> SlotChoices]}

CrdsaInit ==
    /\ AtRest
    /\ \E n \in 0..MaxPackets : \E packet_to_slots \in Draws(n) :
          call = [op |-> "apply_crdsa_collision_simulation",
                  pc |-> "called",
                  packets |-> [i \in 1..n |-> i],
                  packet_to_slots |-> packet_to_slots,
                  slots |-> [slot_idx \in Slots |-> <<>>],
                  resolved_packets |-> {},
                  unresolved_packets |-> {},
                  iteration |-> 0,
                  sole |-> {},
                  stopped_by |-> "",
                  survived_packets |-> <<>>]

\* `if not packets`: the node's new inventory is the empty list.
CrdsaEmpty ==
    /\ call.op = "apply_crdsa_collision_simulation"
    /\ call.pc = "called"
    /\ call.packets = <<>>
    /\ call' = [call EXCEPT !.pc = "returned", !.stopped_by = "empty"]
    /\ Rests

\* Every packet is appended to each of its slots, in the order of the list.
CrdsaAssign ==
    /\ call.op = "apply_crdsa_collision_simulation"
    /\ call.pc = "called"
    /\ call.packets # <<>>
    /\ call' = [call EXCEPT
          !.pc = "loop",
          !.slots = [slot_idx \in Slots |->
                        SelectSeq(call.packets,
                                  LAMBDA p : slot_idx \in call.packet_to_slots[p])],
          !.unresolved_packets = DOMAIN call.packet_to_slots]
    /\ Rests

newly_resolved_none(slots, unresolved_packets) == {}

newly_resolved_first(slots, unresolved_packets) ==
    {slots[slot_idx][1] : slot_idx \in {i \in Slots : Len(slots[i]) >= 1}}

\* The packets alone in a slot and still unresolved.
newly_resolved(slots, unresolved_packets) ==
    {slots[slot_idx][1] :
        slot_idx \in {i \in Slots : /\ Len(slots[i]) = 1
                                   /\ slots[i][1] \in unresolved_packets}}

sic_loop_runs_on(c) == FALSE

sic_loop_exits_after_one(c) ==
    \/ c.iteration >= 1
    \/ c.unresolved_packets = {}
    \/ newly_resolved(c.slots, c.unresolved_packets) = {}

\* The loop is left: the range is used up, nothing is unresolved, or the
\* iteration finds no singleton.
sic_loop_exits(c) ==
    \/ c.iteration >= CRDSA_MAX_SIC_ITERATIONS
    \/ c.unresolved_packets = {}
    \/ newly_resolved(c.slots, c.unresolved_packets) = {}

\* One iteration that resolves packets and cancels them from their slots.
SicIteration ==
    /\ call.op = "apply_crdsa_collision_simulation"
    /\ call.pc = "loop"
    /\ ~sic_loop_exits(call)
    /\ LET newly == newly_resolved(call.slots, call.unresolved_packets)
       IN call' = [call EXCEPT
             !.resolved_packets = @ \cup newly,
             !.unresolved_packets = @ \ newly,
             !.slots = [slot_idx \in Slots |->
                           SelectSeq(call.slots[slot_idx],
                                     LAMBDA p : p \notin newly)],
             !.sole = @ \cup {p \in Range(call.packets) :
                                 \E slot_idx \in Slots :
                                     call.slots[slot_idx] = <<p>>},
             !.iteration = @ + 1]
    /\ Rests

\* The loop is over: the resolved packets are kept, in their order.
SicReturn ==
    /\ call.op = "apply_crdsa_collision_simulation"
    /\ call.pc = "loop"
    /\ sic_loop_exits(call)
    /\ call' = [call EXCEPT
          !.pc = "returned",
          !.stopped_by =
              IF call.iteration >= CRDSA_MAX_SIC_ITERATIONS THEN "range"
              ELSE IF call.unresolved_packets = {} THEN "resolved"
              ELSE "no singleton",
          !.survived_packets =
              SelectSeq(call.packets, LAMBDA p : p \in call.resolved_packets)]
    /\ Rests

CrdsaNext == CrdsaEmpty \/ CrdsaAssign \/ SicIteration \/ SicReturn

CrdsaSpec == CrdsaInit /\ [][CrdsaNext]_vars

\* ------------------------------------------ EconomyTracker: the two metrics
\* The metrics are computed from the balances of a list of wallets.
MaxWallets == 4
MaxCredit == 3

RECURSIVE BalanceLists(_)
BalanceLists(n) ==
    IF n = 0 THEN {<<>>}
    ELSE BalanceLists(n - 1)
         \cup {Append(b, c) : b \in [1..(n - 1) -> 0..MaxCredit], c \in 0..MaxCredit}

unsorted(s) == s

\* sorted(): the balances in ascending order (insertion sort).
RECURSIVE insert_sorted(_, _)
insert_sorted(s, x) ==
    IF s = <<>> THEN <<x>>
    ELSE IF x <= Head(s) THEN <<x>> \o s
    ELSE <<Head(s)>> \o insert_sorted(Tail(s), x)

RECURSIVE sorted(_)
sorted(s) == IF s = <<>> THEN <<>> ELSE insert_sorted(sorted(Tail(s)), Head(s))

reversed(s) == [i \in 1..Len(s) |-> s[Len(s) + 1 - i]]

RECURSIVE sum(_)
sum(s) == IF s = <<>> THEN 0 ELSE Head(s) + sum(Tail(s))

\* `cumulative > total * 0.5`, on integers.
over_half_or_equal(cumulative, total) == 2 * cumulative >= total

over_half(cumulative, total) == 2 * cumulative > total

\* The loop `for i, balance in enumerate(balances)`, entered at the i-th
\* balance (counted from 1) with the sum of the balances before it.
RECURSIVE nakamoto_loop(_, _, _, _)
nakamoto_loop(balances, total, i, cumulative) ==
    IF i > Len(balances) THEN Len(balances)
    ELSE IF over_half(cumulative + balances[i], total) THEN i
    ELSE nakamoto_loop(balances, total, i + 1, cumulative + balances[i])

calculate_nakamoto_coefficient(wallets) ==
    IF wallets = <<>> THEN 0
    ELSE LET balances == reversed(sorted(wallets))
             total == sum(balances)
         IN IF total = 0 THEN Len(wallets)
            ELSE nakamoto_loop(balances, total, 1, 0)

NakamotoInit ==
    /\ AtRest
    /\ \E wallets \in BalanceLists(MaxWallets) :
          call = [op |-> "calculate_nakamoto_coefficient", wallets |-> wallets,
                  returned |-> FALSE, result |-> 0]

NakamotoCall ==
    /\ call.op = "calculate_nakamoto_coefficient"
    /\ ~call.returned
    /\ call' = [call EXCEPT
                   !.result = calculate_nakamoto_coefficient(call.wallets),
                   !.returned = TRUE]
    /\ Rests

NakamotoSpec == NakamotoInit /\ [][NakamotoCall]_vars

\* A real number is the fraction <<numerator, denominator>>, denominator > 0;
\* the floating-point operations of the source are taken as exact.
fraction_minus(p, q) == <<p[1] * q[2] - q[1] * p[2], p[2] * q[2]>>

\* np.sum(index * balances) with index = 1..n.
RECURSIVE index_weighted_sum(_, _)
index_weighted_sum(balances, i) ==
    IF i > Len(balances) THEN 0
    ELSE i * balances[i] + index_weighted_sum(balances, i + 1)

\* round(gini, 4): the nearest multiple of 1/10000, the even one of two
\* equally near.
DECIMALS == 10000
round4(q) ==
    LET scaled == q[1] * DECIMALS
        floor == scaled \div q[2]
        rest == scaled - floor * q[2]
    IN IF 2 * rest < q[2] THEN <<floor, DECIMALS>>
       ELSE IF 2 * rest > q[2] THEN <<floor + 1, DECIMALS>>
       ELSE IF floor % 2 = 0 THEN <<floor, DECIMALS>>
       ELSE <<floor + 1, DECIMALS>>

\* <<the value of `gini` before rounding, the value returned>>
calculate_gini_coefficient(wallets) ==
    IF wallets = <<>> THEN <<<<0, 1>>, <<0, 1>>>>
    ELSE LET balances == sorted(wallets)
             n == Len(balances)
         IN IF n = 0 \/ sum(balances) = 0 THEN <<<<0, 1>>, <<0, 1>>>>
            ELSE LET gini == fraction_minus(
                                 <<2 * index_weighted_sum(balances, 1),
                                   n * sum(balances)>>,
                                 <<n + 1, n>>)
                 IN <<gini, round4(gini)>>

GiniInit ==
    /\ AtRest
    /\ \E wallets \in BalanceLists(MaxWallets) :
          call = [op |-> "calculate_gini_coefficient", wallets |-> wallets,
                  returned |-> FALSE, gini |-> <<0, 1>>, result |-> <<0, 1>>]

GiniCall ==
    /\ call.op = "calculate_gini_coefficient"
    /\ ~call.returned
    /\ LET out == calculate_gini_coefficient(call.wallets)
       IN call' = [call EXCEPT !.gini = out[1], !.result = out[2],
                                !.returned = TRUE]
    /\ Rests

GiniSpec == GiniInit /\ [][GiniCall]_vars

\* ================================================================ claims
AllPackets == UNION {Range(node_inventories[n]) : n \in Nodes}
NoRepeat(h) == \A i, j \in DOMAIN h : h[i] = h[j] => i = j
TotalStored(inv) == SumOver([n \in Nodes |-> Len(inv[n])], Nodes)
TotalBalance(w) == SumOver([n \in Nodes |-> w[n].balance], Nodes)

\* The flooding loops are over and simulation_tick has not yet returned: the
\* state at the end of a tick, before any request can be served.
TickDone == task_pc = "flood" /\ node_a > NUM_NODES

\* C1: no inventory holds two packets with the same original message id and
\* the same history.
C1_NoDuplicateIdentity ==
    \A n \in Nodes : \A i, j \in DOMAIN node_inventories[n] :
        (/\ node_inventories[n][i].original_message_id =
                node_inventories[n][j].original_message_id
         /\ node_inventories[n][i].history = node_inventories[n][j].history)
        => i = j

\* C2: no node id occurs twice in the history of a packet held in an
\* inventory or built as a copy by the running tick.
C2_NoRepeatInHistory ==
    /\ \A p \in AllPackets : NoRepeat(p.history)
    /\ \A i \in DOMAIN new_packets : NoRepeat(new_packets[i][2].history)

\* A packet has visited every node, so that the anti-loop rule has refused
\* every further copy of it.
C2_Witness ==
    \E p \in AllPackets : Len(p.history) = NUM_NODES /\ TickDone

\* C3: at the end of a tick every inventory holds at most MAX_INVENTORY_SIZE
\* packets.
C3_CapAtTickEnd ==
    TickDone => \A n \in Nodes : Len(node_inventories[n]) <= MAX_INVENTORY_SIZE

\* C4: at the end of a tick that ran at time current_time, every packet in an
\* inventory and every copy the tick built was created less than
\* PACKET_TTL_SECONDS before current_time.
C4_ExpiredAbsentAtTickEnd ==
    TickDone =>
        /\ \A p \in AllPackets : current_time - p.created_at < PACKET_TTL_SECONDS
        /\ \A i \in DOMAIN new_packets :
               current_time - new_packets[i][2].created_at < PACKET_TTL_SECONDS

\* A tick ends at a time at or past the expiry of a message that had reached a
\* node other than its publisher.
C4_Witness ==
    /\ TickDone
    /\ \E n \in Nodes : \E id \in known_messages[n] :
           id[1] # n /\ current_time >= id[3] + PACKET_TTL_SECONDS

\* C5: every wallet's balance is at least 0.
C5_BalanceNonNegative == \A n \in Nodes : wallet[n].balance >= 0

\* A publish has been refused for lack of credits by a wallet that holds
\* fewer credits than the send cost.
C5_Witness ==
    /\ response.status = 402
    /\ wallet[response.node].balance < LOGISTICS_SEND_COST

\* The credits the ticks so far have issued as universal income.
UbiIssued(e) == (e.tick_count \div UBI_INTERVAL_TICKS) * UBI_AMOUNT * NUM_NODES

Circulating ==
    TotalBalance(wallet) - UbiIssued(global_economy)
        - global_economy.total_safety_subsidies

\* C6: no step of a tick changes the sum of the balances less the universal
\* income and the Safe-class relay rewards issued.
C6_TicksConserveCredits ==
    [][(TickAcquire \/ TickMaintain \/ TickFlood \/ TickReturn)
          => Circulating' = Circulating]_vars

\* C7: when no inventory holds a duplicate and the relaying node holds
\* Safe-class packets only, the flooding iteration raises its balance by
\* SAFETY_RELAY_REWARD for each copy stored in an inventory by that
\* iteration, and by nothing else.
C7_SafeRewardPerStoredCopy ==
    [][(/\ TickFlood
        /\ C1_NoDuplicateIdentity
        /\ \A p \in Range(node_inventories[node_a]) : p.message_type = "Safe")
          => wallet'[node_a].balance - wallet[node_a].balance =
                 SAFETY_RELAY_REWARD *
                     (TotalStored(node_inventories') - TotalStored(node_inventories))
      ]_vars

\* C8: a publish of a Safe-class message changes no wallet and no total of
\* the economy tracker.
C8_SafePublishIsFree ==
    [][(\E p \in Nodes, m \in Texts, tg \in TargetLists :
            publish_message(p, "Safe", m, tg))
          => wallet' = wallet /\ global_economy' = global_economy]_vars

\* A Safe-class message has been published by a node whose balance is 0.
C8_Witness ==
    /\ response.status = 200
    /\ response.message_type = "Safe"
    /\ response.balance = 0
    /\ \E p \in Range(node_inventories[response.node]) :
           p.message_type = "Safe" /\ p.history = <<response.node>>

\* C9: while a tick is in progress it holds the simulation lock.
C9_TickHoldsLock == active_ticks > 0 => simulation_lock

\* C10: at most one call of simulation_tick is in progress, and a call
\* starts with the state the previous call left when it returned.
C10_NoOverlap ==
    /\ active_ticks <= 1
    /\ (active_ticks = 1) <=> (task_pc \in {"locked", "flood"})
    /\ task_pc = "locked" => node_a = 0 /\ new_packets = <<>>

\* The second tick has started.
C10_Witness ==
    task_pc = "locked" /\ global_economy.tick_count = 1 /\ active_ticks = 1

\* C11: when the task ends no tick is in progress (every tick that started
\* has run through the insertion loop and returned, the lock is free and no
\* copy is waiting), and once the simulation is stopped no tick runs: the
\* tick counter, the inventories, the wallets and the trackers stay as they
\* are.
C11_StopLeavesNoPartialTick ==
    [][/\ task_pc' = "cancelled" =>
            /\ ~simulation_running'
            /\ active_ticks' = 0
            /\ ~simulation_lock'
            /\ new_packets' = <<>>
            /\ node_a' = 0
       /\ task_pc = "cancelled" =>
            /\ task_pc' = "cancelled"
            /\ UNCHANGED <<worldVars, taskVars>>
      ]_vars

\* The simulation was stopped after a tick that delivered a copy.
C11_Witness ==
    /\ task_pc = "cancelled"
    /\ global_economy.tick_count >= 1
    /\ \E p \in AllPackets : Len(p.history) >= 2

\* The copies the step has appended to the tick's list of new packets.
Built == SubSeq(new_packets', Len(new_packets) + 1, Len(new_packets'))

\* The node a copy was made by: the holder of the packet it was made from.
MadeBy(copy) == copy.history[Len(copy.history) - 1]

SentCount(ps, peer) == StatsOf(ps, peer).sent
RelayedCount(ps, peer) == StatsOf(ps, peer).relayed

\* C12: in a flooding iteration no copy is made by a node whose auto_relay is
\* off, its wallet is not credited and its tracker's sent counters do not
\* move; the iteration of such a node builds and delivers nothing.
C12_NonCooperativeContributesNothing ==
    [][TickFlood =>
          /\ \A x \in Nodes : ~auto_relay[x] =>
                /\ \A i \in DOMAIN Built : MadeBy(Built[i][2]) # x
                /\ wallet'[x] = wallet[x]
                /\ \A q \in Nodes :
                       SentCount(peer_stats'[x], q) = SentCount(peer_stats[x], q)
          /\ ~auto_relay[node_a] =>
                /\ new_packets' = new_packets
                /\ node_inventories' = node_inventories
                /\ global_economy' = global_economy
      ]_vars

\* A tick is over in which a node with auto_relay off held a copy it had
\* received, had a neighbour in contact that the copy had not visited, and
\* earned nothing.
C12_Witness ==
    /\ TickDone
    /\ global_economy.tick_count = 1
    /\ \E x \in Nodes, b \in Nodes :
          /\ ~auto_relay[x]
          /\ x # b
          /\ connected_via_range(x, b) \/ connected_via_link(x, b)
          /\ wallet[x].total_earned = 0
          /\ \E p \in Range(node_inventories[x]) :
                 Len(p.history) >= 2 /\ b \notin Range(p.history)

\* a and b are farther apart than the range of either and have no link.
Isolated(a, b) ==
    /\ calculate_distance(latitude[a], latitude[b]) > range[a]
    /\ calculate_distance(latitude[a], latitude[b]) > range[b]
    /\ ~connected_via_link(a, b)

\* a and b are neighbouring entries of the history h, in either order.
Adjacent(h, a, b) ==
    \E i \in 1..(Len(h) - 1) : {h[i], h[i + 1]} = {a, b}

\* Some packet, stored or built by the running tick, went from a to b or
\* from b to a.
Exchanged(inv, np, a, b) ==
    \/ \E n \in Nodes : \E i \in DOMAIN inv[n] : Adjacent(inv[n][i].history, a, b)
    \/ \E i \in DOMAIN np : Adjacent(np[i][2].history, a, b)

\* C13: while a and b are isolated from each other, no step makes a packet
\* whose history has a and b as neighbouring entries: if none exists before
\* the step, none exists after it.
C13_IsolatedNeverExchange ==
    [][\A a \in Nodes, b \in Nodes :
          (/\ a # b
           /\ Isolated(a, b)
           /\ ~Exchanged(node_inventories, new_packets, a, b))
          => ~Exchanged(node_inventories', new_packets', a, b)
      ]_vars

\* Two isolated nodes have never exchanged a packet, although one of them is
\* cooperative and published a message that reached the other through a
\* third node.
C13_Witness ==
    /\ TickDone
    /\ \E a \in Nodes, b \in Nodes :
          /\ a # b
          /\ Isolated(a, b)
          /\ auto_relay[a]
          /\ ~Exchanged(node_inventories, new_packets, a, b)
          /\ \E p \in Range(node_inventories[b]) : p.publisher_id = a

\* The flooding rule for the i-th packet of a's inventory and the node b.
ShouldCopy(a, b, i) ==
    /\ a # b
    /\ \/ calculate_distance(latitude[a], latitude[b]) <= range[a]
       \/ <<a, b>> \in CONNECTIONS
       \/ <<b, a>> \in CONNECTIONS
    /\ auto_relay[a]
    /\ \A j \in DOMAIN node_inventories[a][i].history :
           node_inventories[a][i].history[j] # b

IsCopyOf(copy, packet, b) ==
    /\ copy.history = packet.history \o <<b>>
    /\ copy.original_message_id = packet.original_message_id
    /\ copy.publisher_id = packet.publisher_id
    /\ copy.target_ids = packet.target_ids
    /\ copy.message_text = packet.message_text
    /\ copy.message_type = packet.message_type
    /\ copy.created_at = packet.created_at

\* C14: the iteration of node_a appends to the list of new packets one copy
\* for each node b and each packet of node_a's inventory that the flooding
\* rule selects, and nothing else; a copy differs from its packet in the
\* history, which has b appended, and in the packet id, which no other
\* packet carries.
C14_FloodingRule ==
    [][TickFlood =>
          LET inventory == node_inventories[node_a]
              selected == {<<b, i>> \in Nodes \X DOMAIN inventory :
                              ShouldCopy(node_a, b, i)}
          IN /\ Len(new_packets') = Len(new_packets) + Cardinality(selected)
             /\ SubSeq(new_packets', 1, Len(new_packets)) = new_packets
             /\ \A b \in Nodes :
                    Cardinality({k \in DOMAIN Built : Built[k][1] = b})
                        = Cardinality({i \in DOMAIN inventory : <<b, i>> \in selected})
             /\ \A k \in DOMAIN Built :
                    \E i \in DOMAIN inventory :
                        /\ <<Built[k][1], i>> \in selected
                        /\ IsCopyOf(Built[k][2], inventory[i], Built[k][1])
             /\ \A b \in Nodes, i \in DOMAIN inventory :
                    <<b, i>> \in selected =>
                        \E k \in DOMAIN Built :
                            /\ Built[k][1] = b
                            /\ IsCopyOf(Built[k][2], inventory[i], b)
             /\ \A k \in DOMAIN Built :
                    /\ Built[k][2].packet_id
                           \notin PacketIds(node_inventories, new_packets)
                    /\ \A l \in DOMAIN Built :
                           Built[k][2].packet_id = Built[l][2].packet_id => k = l
      ]_vars

\* A node holds a copy it received from a node that is out of its own range
\* and not linked to it.
C14_Witness ==
    /\ TickDone
    /\ \E a \in Nodes, b \in Nodes :
          /\ calculate_distance(latitude[a], latitude[b]) > range[b]
          /\ calculate_distance(latitude[a], latitude[b]) <= range[a]
          /\ ~connected_via_link(a, b)
          /\ \E p \in Range(node_inventories[b]) : p.history = <<a, b>>

\* The node before the holder a in the history h of a packet a holds, or 0
\* when a is the first entry.
Predecessor(h, a) ==
    IF \E i \in 2..Len(h) : h[i] = a
    THEN h[(CHOOSE i \in 2..Len(h) : h[i] = a) - 1]
    ELSE 0

\* C15: in the iteration of node_a, the relayed counter that node n keeps for
\* peer q grows by the number of copies node_a builds from packets that
\* reached node_a from n, if q is node_a and n is not the packet's publisher,
\* and by nothing otherwise.
C15_RelayCreditedToPredecessor ==
    [][TickFlood =>
          LET inventory == node_inventories[node_a]
              selected == {<<b, i>> \in Nodes \X DOMAIN inventory :
                              ShouldCopy(node_a, b, i)}
              from(n) == {c \in selected :
                             /\ Len(inventory[c[2]].history) > 1
                             /\ Predecessor(inventory[c[2]].history, node_a) = n
                             /\ n # inventory[c[2]].publisher_id}
          IN \A n \in Nodes, q \in Nodes :
                 RelayedCount(peer_stats'[n], q) - RelayedCount(peer_stats[n], q)
                     = IF q = node_a THEN Cardinality(from(n)) ELSE 0
      ]_vars

\* C16: the score get_reputation_score returns lies within [0, 1]; it is 1
\* for a peer without an entry or with sent = 0, and the smaller of 1 and
\* relayed / sent otherwise.
C16_ScoreInUnitInterval ==
    (call.op = "get_reputation_score" /\ call.returned) =>
        LET ps == call.peer_stats
            q == call.peer_id
            score == call.score
        IN /\ score[2] > 0
           /\ 0 <= score[1]
           /\ score[1] <= score[2]
           /\ (q \notin DOMAIN ps \/ ps[q].sent = 0) => score[1] = score[2]
           /\ (q \in DOMAIN ps /\ ps[q].sent > 0) =>
                  score[1] * ps[q].sent = score[2] * Min(ps[q].relayed, ps[q].sent)

\* The score of a peer that relayed more packets than it was sent has been
\* computed, and is 1.
C16_Witness ==
    /\ call.op = "get_reputation_score"
    /\ call.returned
    /\ call.peer_id \in DOMAIN call.peer_stats
    /\ call.peer_stats[call.peer_id].sent > 0
    /\ call.peer_stats[call.peer_id].relayed > call.peer_stats[call.peer_id].sent
    /\ call.score = <<1, 1>>

\* C20: spend_credits with a positive amount returns true, lowers the
\* balance and raises total_spent by the amount when the balance is at least
\* the amount, and otherwise returns false and leaves the wallet as it was;
\* with an amount of 0 or less it returns true and leaves the wallet as it
\* was.
C20_SpendCredits ==
    (call.op = "spend_credits" /\ call.returned) =>
        IF call.amount > 0
        THEN IF call.before.balance >= call.amount
             THEN /\ call.value
                  /\ call.after.balance = call.before.balance - call.amount
                  /\ call.after.total_spent = call.before.total_spent + call.amount
                  /\ call.after.total_earned = call.before.total_earned
             ELSE ~call.value /\ call.after = call.before
        ELSE call.value /\ call.after = call.before

\* A wallet has spent its whole balance.
C20_Witness ==
    /\ call.op = "spend_credits"
    /\ call.returned
    /\ call.amount > 0
    /\ call.before.balance = call.amount
    /\ call.value
    /\ call.after.balance = 0

CrdsaReturned ==
    call.op = "apply_crdsa_collision_simulation" /\ call.pc = "returned"

\* C17: the resolver returns a lone packet, whatever slots it drew.
C17_LonePacketSurvives ==
    (CrdsaReturned /\ Len(call.packets) = 1) =>
        call.survived_packets = call.packets

\* The resolver has returned the only packet it was given.
C17_Witness ==
    /\ CrdsaReturned
    /\ Len(call.packets) = 1
    /\ call.survived_packets = call.packets
    /\ call.iteration = 1

\* C18: the cancellation loop never runs more than CRDSA_MAX_SIC_ITERATIONS
\* iterations, every iteration it completes resolves at least one packet, and
\* until the resolver has returned it can take a step.
C18_ResolverTerminates ==
    call.op = "apply_crdsa_collision_simulation" =>
        /\ call.iteration <= CRDSA_MAX_SIC_ITERATIONS
        /\ call.iteration <= Cardinality(call.resolved_packets)
        /\ call.pc = "returned" \/ ENABLED CrdsaNext

\* The resolver has returned for more packets than there are slots.
C18_Witness ==
    /\ CrdsaReturned
    /\ Len(call.packets) > CRDSA_SLOTS_PER_TICK
    /\ call.iteration >= 2

\* C19: the resolver's output lists packets of the input in the input's
\* order, each of them assigned slots by this call; it is empty for an empty
\* input; a packet is in it exactly when in some iteration it was alone in
\* one of its slots.  It is the list the tick's contention step computes.
C19_ResolverOutput ==
    CrdsaReturned =>
        LET out == call.survived_packets
        IN /\ \A i \in DOMAIN out :
                  /\ out[i] \in Range(call.packets)
                  /\ out[i] \in DOMAIN call.packet_to_slots
                  /\ call.packet_to_slots[out[i]] # {}
           /\ \A i \in DOMAIN out, j \in DOMAIN out : i < j => out[i] < out[j]
           /\ call.packets = <<>> => out = <<>>
           /\ \A p \in Range(call.packets) : p \in Range(out) <=> p \in call.sole
           /\ out = survived_packets(call.packets, call.packet_to_slots)

\* A packet that collided in both its slots is in the output, resolved in a
\* later iteration than another, and a third packet is lost.
C19_Witness ==
    /\ CrdsaReturned
    /\ call.iteration >= 2
    /\ call.stopped_by = "no singleton"
    /\ \E p \in Range(call.survived_packets) :
          \A slot_idx \in call.packet_to_slots[p] :
              \E q \in Range(call.packets) :
                  q # p /\ slot_idx \in call.packet_to_slots[q]
    /\ Len(call.survived_packets) < Len(call.packets)

\* --------------------------------------------------------------- C21
\* publish_message answered 402 in this step.
Refused ==
    /\ response'.op = "publish_message"
    /\ response'.status = 402
    /\ requests' = requests + 1

\* A publish the wallet cannot pay for: the message class has a price and the
\* publisher's balance is below it.
CannotPay(p, t) == t # "Safe" /\ wallet[p].balance < send_cost(t)

\* C21: a publish of a non-Safe message by a node whose balance is below the
\* send cost is answered 402 and changes nothing: no wallet field moves (no
\* debit, not even a partial one), no inventory gets a packet, no node learns
\* a message id and the tracker records no transaction; and 402 is answered
\* to no other publish.
C21_InsufficientFundsChangesNothing ==
    [][/\ \A p \in Nodes, t \in MessageTypes, m \in Texts, tg \in TargetLists :
              publish_message(p, t, m, tg) /\ CannotPay(p, t)
                  => /\ Refused
                     /\ response'.node = p
                     /\ wallet' = wallet
                     /\ node_inventories' = node_inventories
                     /\ known_messages' = known_messages
                     /\ global_economy' = global_economy
                     /\ UNCHANGED worldVars
       /\ \A p \in Nodes, t \in MessageTypes, m \in Texts, tg \in TargetLists :
              publish_message(p, t, m, tg) /\ Refused => CannotPay(p, t)]_vars

\* A node whose wallet was emptied is refused a Logistics publish: nothing
\* was debited or recorded, and no inventory or known-message set has gained
\* anything.
C21_Witness ==
    /\ response.op = "publish_message"
    /\ response.status = 402
    /\ response.message_type = "Logistics"
    /\ requests = MaxRequests
    /\ wallet[response.node].balance = 0
    /\ wallet[response.node].total_spent = 0
    /\ wallet[response.node].transaction_count = 0
    /\ global_economy.total_transactions = 0
    /\ \A n \in Nodes : node_inventories[n] = <<>> /\ known_messages[n] = {}

\* --------------------------------------------------------------- C22
\* The answer of this step is a rejection by handler op.
Rejected(op) ==
    /\ requests' = requests + 1
    /\ response'.op = op
    /\ response'.status \in {400, 404, 422}

UnknownId(n) == n \notin Nodes

HasUnknownId(ids) == \E i \in DOMAIN ids : UnknownId(ids[i])

HasDuplicate(ids) == \E i, j \in DOMAIN ids : i # j /\ ids[i] = ids[j]

\* C22: a publish with an unknown publisher or target id (or a message class,
\* a text or a target list the validators refuse), an add_connection with an
\* unknown id or with node_a = node_b, a range update outside the limits, a
\* position update with a coordinate outside its limits, and a partition
\* request with duplicate or unknown ids are each rejected and change no
\* inventory, wallet, link, node or tracker state.
C22_ValidationErrorsChangeNothing ==
    [][/\ \A r \in PublishRequests :
              /\ \/ UnknownId(r[1]) \/ HasUnknownId(r[4]) \/ r[4] = <<>>
                 \/ r[2] \notin {"Logistics", "Help", "Safe"}
                 \/ r[3] = <<>> \/ Len(r[3]) > MAX_MESSAGE_LENGTH
              /\ publish_message(r[1], r[2], r[3], r[4])
              => Rejected("publish_message") /\ UNCHANGED worldVars
       /\ \A a \in NodeIds, b \in NodeIds :
              (UnknownId(a) \/ UnknownId(b) \/ a = b) /\ add_connection(a, b)
              => Rejected("add_connection") /\ UNCHANGED worldVars
       /\ \A n \in NodeIds, r \in AnyRanges :
              (r < MIN_RANGE \/ r > MAX_RANGE) /\ update_node_range(n, r)
              => Rejected("update_node_range") /\ UNCHANGED worldVars
       /\ \A r \in PositionRequests :
              /\ \/ r[2] < -MAX_LATITUDE \/ r[2] > MAX_LATITUDE
                 \/ r[3] < -MAX_LONGITUDE \/ r[3] > MAX_LONGITUDE
              /\ update_node_position(r[1], r[2], r[3])
              => Rejected("update_node_position") /\ UNCHANGED worldVars
       /\ \A r \in PartitionRequests :
              /\ HasDuplicate(r[1] \o r[2]) \/ HasUnknownId(r[1] \o r[2])
              /\ attack_partition_network(r[1], r[2])
              => Rejected("attack_partition_network") /\ UNCHANGED worldVars]_vars

\* A partition request naming an unknown id has been rejected in a world that
\* an earlier request had changed: a link exists, and every node is still
\* where it was created.
C22_Witness ==
    /\ response.op = "attack_partition_network"
    /\ response.status = 400
    /\ CONNECTIONS # {}
    /\ \A n \in Nodes : latitude[n] \in Positions

\* --------------------------------------------------------------- C23
\* The link {a, b} is in the link set S, whichever way it is written.
Linked(S, a, b) == <<a, b>> \in S \/ <<b, a>> \in S

\* C23: adding a link, through either order of its endpoints, makes exactly
\* that link present and writes it one way only, so both orders give the same
\* set and adding an existing link changes nothing; removing through either
\* order deletes exactly that link, and removing an absent link changes
\* nothing; and in a flooding iteration a cooperative node_a makes a copy for
\* every node it is linked to, whichever endpoint of the link node_a is, of
\* every packet that has not visited that node.
C23_LinksSymmetricIdempotent ==
    [][/\ \A a \in Nodes, b \in Nodes :
              a # b /\ add_connection(a, b) =>
                  /\ \A x \in Nodes, y \in Nodes :
                         Linked(CONNECTIONS', x, y)
                             <=> (Linked(CONNECTIONS, x, y) \/ {x, y} = {a, b})
                  /\ \A l \in CONNECTIONS' : l[1] < l[2]
                  /\ Linked(CONNECTIONS, a, b) => CONNECTIONS' = CONNECTIONS
       /\ \A a \in Nodes, b \in Nodes :
              remove_connection(a, b) =>
                  /\ \A x \in Nodes, y \in Nodes :
                         Linked(CONNECTIONS', x, y)
                             <=> (Linked(CONNECTIONS, x, y) /\ {x, y} # {a, b})
                  /\ \A l \in CONNECTIONS' : l[1] < l[2]
                  /\ ~Linked(CONNECTIONS, a, b) => CONNECTIONS' = CONNECTIONS
       /\ TickFlood =>
              \A b \in Nodes \ {node_a}, i \in DOMAIN node_inventories[node_a] :
                  (/\ Linked(CONNECTIONS, node_a, b)
                   /\ auto_relay[node_a]
                   /\ \A j \in DOMAIN node_inventories[node_a][i].history :
                          node_inventories[node_a][i].history[j] # b)
                  => \E k \in DOMAIN Built :
                         /\ Built[k][1] = b
                         /\ IsCopyOf(Built[k][2], node_inventories[node_a][i], b)
      ]_vars

\* Two linked nodes are out of each other's range, and the one with the
\* lower id holds a copy it got over the link from the other.
C23_Witness ==
    /\ TickDone
    /\ \E a \in Nodes, b \in Nodes :
          /\ a < b
          /\ Linked(CONNECTIONS, a, b)
          /\ calculate_distance(latitude[a], latitude[b]) > range[a]
          /\ calculate_distance(latitude[a], latitude[b]) > range[b]
          /\ \E p \in Range(node_inventories[a]) : p.history = <<b, a>>

\* --------------------------------------------------------------- C24
\* What the flooding iteration of this step pays node_a for the copies built.
RelayPay == SumOver([k \in DOMAIN Built |-> relay_reward(Built[k][2])], DOMAIN Built)

\* C24: the maintenance step of a tick, which comes before the flooding of
\* that tick, raises the tick counter by exactly 1 and credits every wallet
\* UBI_AMOUNT if the new counter is a multiple of UBI_INTERVAL_TICKS and
\* nothing otherwise; no other step moves the counter, and the flooding
\* iterations and the return of the tick credit a wallet nothing but the
\* relay rewards of the iterating node.
C24_UniversalIncome ==
    [][/\ TickMaintain =>
              /\ task_pc' = "flood" /\ node_a' = 1
              /\ global_economy'.tick_count = global_economy.tick_count + 1
              /\ \A n \in Nodes :
                     LET due == IF global_economy'.tick_count % UBI_INTERVAL_TICKS = 0
                                THEN UBI_AMOUNT ELSE 0
                     IN /\ wallet'[n].balance = wallet[n].balance + due
                        /\ wallet'[n].total_earned = wallet[n].total_earned + due
                        /\ wallet'[n].total_spent = wallet[n].total_spent
       /\ task_pc # "locked" =>
              global_economy'.tick_count = global_economy.tick_count
       /\ TickFlood =>
              \A n \in Nodes :
                  wallet'[n].balance =
                      wallet[n].balance + (IF n = node_a THEN RelayPay ELSE 0)
       /\ TickAcquire \/ TickReturn => wallet' = wallet
      ]_vars

\* Flooding of the tick that made the counter a multiple of the interval is
\* about to begin, and every wallet has been paid the universal income once;
\* the tick before paid none.
C24_Witness ==
    /\ task_pc = "flood"
    /\ node_a = 1
    /\ global_economy.tick_count = UBI_INTERVAL_TICKS
    /\ UBI_INTERVAL_TICKS > 1
    /\ \A n \in Nodes : wallet[n].total_earned = UBI_AMOUNT

\* --------------------------------------------------------------- C25
FeeGrowth == global_economy'.total_fee_revenue - global_economy.total_fee_revenue

SubsidyGrowth ==
    global_economy'.total_safety_subsidies - global_economy.total_safety_subsidies

\* The copies the flooding iteration of this step built of Safe-class
\* packets, and of the other packets.
SafeBuilt == {k \in DOMAIN Built : Built[k][2].message_type = "Safe"}

OtherBuilt == DOMAIN Built \ SafeBuilt

\* C25: both totals start at 0; total_fee_revenue grows in the steps that
\* accept a non-Safe publish, by the send cost, and in no other step;
\* total_safety_subsidies grows in the flooding iterations, by
\* SAFETY_RELAY_REWARD for each Safe-class relay reward credited to the
\* iterating node, and in no other step; the low-tier rewards paid in the
\* same iteration and the universal income of the maintenance step change
\* neither.  So in every state the totals are the sums the claim names.
C25_TrackerTotals ==
    /\ global_economy.total_fee_revenue = 0
    /\ global_economy.total_safety_subsidies = 0
    /\ [][/\ \A p \in Nodes, t \in MessageTypes, m \in Texts, tg \in TargetLists :
                 publish_message(p, t, m, tg) =>
                     /\ FeeGrowth = IF response'.status = 200 /\ t # "Safe"
                                    THEN send_cost(t) ELSE 0
                     /\ SubsidyGrowth = 0
          /\ TickFlood =>
                 /\ FeeGrowth = 0
                 /\ SubsidyGrowth = SAFETY_RELAY_REWARD * Cardinality(SafeBuilt)
                 /\ wallet'[node_a].balance - wallet[node_a].balance
                        = SAFETY_RELAY_REWARD * Cardinality(SafeBuilt)
                          + LOGISTICS_RELAY_REWARD * Cardinality(OtherBuilt)
          /\ FeeGrowth # 0 =>
                 \E p \in Nodes, t \in MessageTypes, m \in Texts, tg \in TargetLists :
                     publish_message(p, t, m, tg)
          /\ SubsidyGrowth # 0 => TickFlood
         ]_vars

\* A tick that paid the universal income has ended; a Logistics publish was
\* charged and Safe-class and low-tier relay rewards were both paid, and the
\* totals show the one charge and the Safe-class rewards only.
C25_Witness ==
    /\ TickDone
    /\ global_economy.tick_count = UBI_INTERVAL_TICKS
    /\ global_economy.total_fee_revenue = LOGISTICS_SEND_COST
    /\ global_economy.total_safety_subsidies >= SAFETY_RELAY_REWARD
    /\ global_economy.total_safety_subsidies % SAFETY_RELAY_REWARD = 0
    /\ \E n \in Nodes : \E q \in Range(node_inventories[n]) :
           q.message_type = "Logistics" /\ Len(q.history) > 1

\* --------------------------------------------------------------- C26
\* The largest sum k of the balances b can have.
TopSum(b, k) ==
    LET picks == {S \in SUBSET DOMAIN b : Cardinality(S) = k}
        total(S) == SumOver(b, S)
    IN CHOOSE t \in {total(S) : S \in picks} :
           \A S \in picks : total(S) <= t

\* C26: for a list of balances with a positive total the Nakamoto coefficient
\* is the smallest k such that the k largest balances sum to strictly more
\* than half of the total; it is the number of wallets when the total is 0,
\* and 0 for the empty list.
C26_NakamotoCoefficient ==
    (call.op = "calculate_nakamoto_coefficient" /\ call.returned) =>
        LET b == call.wallets
            total == SumOver(b, DOMAIN b)
            k == call.result
        IN IF b = <<>> THEN k = 0
           ELSE IF total = 0 THEN k = Len(b)
           ELSE /\ k \in 1..Len(b)
                /\ 2 * TopSum(b, k) > total
                /\ \A j \in 0..(k - 1) : 2 * TopSum(b, j) <= total

\* The coefficient of a list given out of order whose largest balance is
\* exactly half of the total: one wallet is not enough, two are.
C26_Witness ==
    /\ call.op = "calculate_nakamoto_coefficient"
    /\ call.returned
    /\ Len(call.wallets) >= 3
    /\ call.wallets[1] < call.wallets[2]
    /\ 2 * TopSum(call.wallets, 1) = SumOver(call.wallets, DOMAIN call.wallets)
    /\ call.result = 2

\* --------------------------------------------------------------- C27
\* Fractions with positive denominators.
FracEq(p, q) == p[1] * q[2] = q[1] * p[2]

FracLeq(p, q) == p[1] * q[2] <= q[1] * p[2]

\* (2 * sum(i * b_i)) / (N * sum(b_i)) - (N + 1) / N, as one fraction, on the
\* balances b in ascending order.
GiniFormula(b) ==
    LET N == Len(b)
        weighted == SumOver([i \in DOMAIN b |-> i * b[i]], DOMAIN b)
        total == SumOver(b, DOMAIN b)
    IN <<2 * weighted - (N + 1) * total, N * total>>

Ascending(b) == \A i \in 1..(Len(b) - 1) : b[i] <= b[i + 1]

\* c is b in another order.
SameBalances(b, c) ==
    /\ Len(b) = Len(c)
    /\ \A v \in 0..MaxCredit :
           Cardinality({i \in DOMAIN b : b[i] = v})
               = Cardinality({i \in DOMAIN c : c[i] = v})

OtherTexts == Texts \cup {<<"o">>, <<"m", "s">>}

\* What a read by node n can show as the content of packet p.
Contents(n, p) == {f.content : f \in formatted_packet(n, p)}

\* C28: an inventory read by node n returns one entry per packet of n's
\* inventory, in order; the entry's can_decrypt flag is true exactly when n
\* is one of the packet's target ids; its content is the message text when
\* the flag is true and is not the message text when it is false; and for a
\* packet n is not a target of, the content returned is one the read could
\* have returned had the packet carried any other text, the possible
\* contents being the same set for every text.
C28_ReadConfidentiality ==
    [][\A n \in Nodes :
          get_node_inventory(n) =>
              LET inventory == node_inventories[n]
                  packets == response'.packets
              IN /\ response'.status = 200
                 /\ DOMAIN packets = DOMAIN inventory
                 /\ \A i \in DOMAIN inventory :
                        LET target == \E j \in DOMAIN inventory[i].target_ids :
                                          inventory[i].target_ids[j] = n
                        IN /\ packets[i].packet_id = inventory[i].packet_id
                           /\ packets[i].can_decrypt <=> target
                           /\ target => packets[i].content = inventory[i].message_text
                           /\ ~target =>
                                  /\ packets[i].content # inventory[i].message_text
                                  /\ \A m \in OtherTexts :
                                         LET other == [inventory[i] EXCEPT
                                                          !.message_text = m]
                                         IN /\ packets[i].content \in Contents(n, other)
                                            /\ Contents(n, other)
                                                   = Contents(n, inventory[i])
      ]_vars

\* A node has read its inventory, which holds a packet addressed to another
\* node: the entry is flagged as not decryptable and shows a hash.
C28_Witness ==
    /\ response.op = "get_node_inventory"
    /\ response.status = 200
    /\ response.packets # <<>>
    /\ node_inventories[response.node] # <<>>
    /\ response.node \notin Range(node_inventories[response.node][1].target_ids)
    /\ ~response.packets[1].can_decrypt
    /\ response.packets[1].content \in Hashes

\* --------------------------------------------------------------- C29
\* Every text published is one of Texts: a packet with another text has been
\* tampered with, or is a copy of one that was.
Tampered(packet) == packet.message_text \notin Texts

\* The packets node n holds after this step that it did not hold before.
Accepted(n) ==
    {node_inventories'[n][i] : i \in DOMAIN node_inventories'[n]}
        \ {node_inventories[n][i] : i \in DOMAIN node_inventories[n]}

\* C29: no flooding iteration stores a packet carrying a tampered text in
\* another node's inventory, and none pays a relay reward for a copy of a
\* tampered packet: the iterating node is paid for the copies of untampered
\* packets only.
C29_TamperedPacketsRejected ==
    [][TickFlood =>
          /\ \A n \in Nodes : \A packet \in Accepted(n) : ~Tampered(packet)
          /\ wallet'[node_a].balance - wallet[node_a].balance
                 = SumOver([k \in DOMAIN Built |->
                               IF Tampered(Built[k][2]) THEN 0
                               ELSE relay_reward(Built[k][2])],
                           DOMAIN Built)
      ]_vars

\* --------------------------------------------------------------- C30
\* The packets built and delivered earlier in the running tick.
BuiltThisTick == {new_packets[j][2].packet_id : j \in DOMAIN new_packets}

\* C30: every packet the iterating node forwards was in its inventory when
\* the contention step of the tick ended: none of them is a copy built
\* earlier in the same tick, so within a tick a message moves one hop and a
\* stored packet has made at most one hop for each tick run.
C30_OnlySurvivorsForwarded ==
    [][TickFlood =>
          /\ \A i \in DOMAIN node_inventories[node_a] :
                 (\E b \in Nodes : ShouldCopy(node_a, b, i))
                     => node_inventories[node_a][i].packet_id \notin BuiltThisTick
          /\ \A n \in Nodes : \A i \in DOMAIN node_inventories'[n] :
                 Len(node_inventories'[n][i].history) - 1
                     <= global_economy.tick_count
      ]_vars

\* --------------------------------------------------------------- C31
\* The copies the flooding iteration of this step built for node b.
BuiltFor(b) == {k \in DOMAIN Built : Built[k][1] = b}

\* The packets node b holds that node a handed to it directly.
StoredFrom(a, b) ==
    {i \in DOMAIN node_inventories[b] :
        LET h == node_inventories[b][i].history
        IN Len(h) > 1 /\ h[Len(h)] = b /\ h[Len(h) - 1] = a}

\* C31: in the flooding iteration of node_a, the sent counter node_a keeps
\* for b grows by the number of copies built for b, stored or not, and no
\* other node's sent counter moves; and a sent or relayed counter goes down
\* in no step but a regenerate.
C31_SentObservations ==
    [][/\ TickFlood =>
              \A n \in Nodes, b \in Nodes :
                  SentCount(peer_stats'[n], b) - SentCount(peer_stats[n], b)
                      = IF n = node_a THEN Cardinality(BuiltFor(b)) ELSE 0
       /\ (\E n \in Nodes, q \in Nodes :
               \/ SentCount(peer_stats'[n], q) < SentCount(peer_stats[n], q)
               \/ RelayedCount(peer_stats'[n], q) < RelayedCount(peer_stats[n], q))
              => regenerate_nodes
      ]_vars

\* A node has counted more packets sent to a peer than the peer stores from
\* it: a copy it built was not stored, or is stored no longer.
C31_Witness ==
    /\ TickDone
    /\ \E a \in Nodes, b \in Nodes :
          /\ StoredFrom(a, b) # {}
          /\ SentCount(peer_stats[a], b) > Cardinality(StoredFrom(a, b))

\* The packets of an inventory that pass the TTL filter of a tick at time t.
Alive(packets, t) == SelectSeq(packets, LAMBDA p : ttl_alive(p, t))

\* C32: in the cleanup of a tick, when more than MAX_INVENTORY_SIZE packets of
\* an inventory pass the TTL filter, every packet the size cap drops was
\* created no later than every packet it keeps.
C32_CapDropsOldest ==
    [][TickMaintain =>
           \A n \in Nodes :
               LET alive == Alive(node_inventories[n], now)
                   dropped == Len(alive) - MAX_INVENTORY_SIZE
               IN \A i \in 1..dropped : \A j \in (dropped + 1)..Len(alive) :
                      alive[i].created_at <= alive[j].created_at
      ]_vars

\* --------------------------------------------------------------- C33
\* s lists elements of t in the order t has them.
RECURSIVE IsSubList(_, _)
IsSubList(s, t) ==
    IF s = <<>> THEN TRUE
    ELSE IF t = <<>> THEN FALSE
    ELSE IF Head(s) = Head(t) THEN IsSubList(Tail(s), Tail(t))
    ELSE IsSubList(s, Tail(t))

\* Some packet of some inventory is not in that inventory after the step.
PacketLeaves ==
    \E n \in Nodes : \E i \in DOMAIN node_inventories[n] :
        \A j \in DOMAIN node_inventories'[n] :
            node_inventories'[n][j] # node_inventories[n][i]

\* C33: the maintenance step of a tick replaces every inventory by an
\* order-preserving sub-list of what its cleanup left, the whole of it when
\* contention is disabled or there is a single packet to contend; and a packet
\* leaves an inventory only in that step, in a clear or in a regeneration.
C33_ContentionLosersDeleted ==
    [][/\ TickMaintain =>
              \A n \in Nodes :
                  LET cleaned == cleanup(node_inventories[n], now)
                  IN /\ IsSubList(node_inventories'[n], cleaned)
                     /\ (~CRDSA_ENABLED \/ Len(cleaned) <= 1)
                            => node_inventories'[n] = cleaned
       /\ PacketLeaves =>
              TickMaintain \/ attack_clear_inventories \/ regenerate_nodes
      ]_vars

\* The first tick has just run its contention step: a node that published two
\* messages, neither of them expired, holds neither.
C33_Witness ==
    /\ task_pc = "flood" /\ node_a = 1 /\ new_packets = <<>>
    /\ global_economy.tick_count = 1
    /\ CRDSA_ENABLED
    /\ requests = 2
    /\ \E n \in Nodes :
          /\ Cardinality(known_messages[n]) = 2
          /\ \A id \in known_messages[n] :
                 id[1] = n /\ current_time - id[3] < PACKET_TTL_SECONDS
          /\ node_inventories[n] = <<>>

\* --------------------------------------------------------------- C34
\* C34: when the resolver returns, no slot holds exactly one packet, every
\* packet left in a slot is unresolved, and the loop was not stopped by its
\* range of CRDSA_MAX_SIC_ITERATIONS iterations while packets were unresolved.
C34_SicFixedPoint ==
    CrdsaReturned =>
        /\ \A slot_idx \in Slots :
               /\ Len(call.slots[slot_idx]) # 1
               /\ Range(call.slots[slot_idx]) \subseteq call.unresolved_packets
        /\ call.stopped_by = "range" => call.unresolved_packets = {}
        /\ call.iteration < CRDSA_MAX_SIC_ITERATIONS

\* The resolver has returned with packets lost, after cancelling in more than
\* one iteration, for more packets than there are slots.
C34_Witness ==
    /\ CrdsaReturned
    /\ Len(call.packets) > CRDSA_SLOTS_PER_TICK
    /\ call.iteration >= 2
    /\ call.unresolved_packets # {}
    /\ \E slot_idx \in Slots : Len(call.slots[slot_idx]) >= 2

\* --------------------------------------------------------------- C35
\* C35: the resolver returns at most CRDSA_SLOTS_PER_TICK - 1 packets.
C35_ThroughputBound ==
    CrdsaReturned => Len(call.survived_packets) <= CRDSA_SLOTS_PER_TICK - 1

\* Given more packets than the bound, the resolver has returned the most it
\* then can: the packets lost share a cycle of slots, which leaves
\* CRDSA_SLOTS_PER_TICK - 2 slots to tell the others apart.
C35_Witness ==
    /\ CrdsaReturned
    /\ Len(call.packets) > CRDSA_SLOTS_PER_TICK - 1
    /\ Len(call.survived_packets) = CRDSA_SLOTS_PER_TICK - 2

\* The bound is met: the resolver has returned CRDSA_SLOTS_PER_TICK - 1
\* packets.
C35_BoundMet ==
    /\ CrdsaReturned
    /\ Len(call.survived_packets) = CRDSA_SLOTS_PER_TICK - 1

\* --------------------------------------------------------------- C36
\* C36: every packet in a node's inventory has a history that ends with the
\* node and starts with the packet's publisher.
C36_HolderInvariant ==
    \A n \in Nodes : \A i \in DOMAIN node_inventories[n] :
        LET packet == node_inventories[n][i]
        IN /\ packet.history # <<>>
           /\ packet.history[Len(packet.history)] = n
           /\ packet.history[1] = packet.publisher_id

\* A node holds a packet that reached it over another node, next to a packet
\* it published itself.
C36_Witness ==
    \E n \in Nodes :
        /\ \E i \in DOMAIN node_inventories[n] :
               Len(node_inventories[n][i].history) = 3
        /\ \E i \in DOMAIN node_inventories[n] :
               node_inventories[n][i].history = <<n>>

\* --------------------------------------------------------------- C37
\* C37: no node's reputation tracker has an entry for the node itself.
C37_NoSelfObservation ==
    \A n \in Nodes : n \notin DOMAIN peer_stats[n]

\* --------------------------------------------------------------- C38
\* C38: every wallet's balance is its initial credits plus all it earned less
\* all it spent.
C38_WalletAccountingIdentity ==
    \A n \in Nodes :
        wallet[n].balance =
            INITIAL_CREDITS + wallet[n].total_earned - wallet[n].total_spent

\* ================================= mvp4-mobile-accountability/backend
\* The accountability backend is a program of its own, with its own state.
\* Of an employee record the fields kept are those a signature covers and
\* those the handlers below write; a notification keeps its id, its employee
\* and its status.
NUM_EMPLOYEES == 2
NOTIFICATION_LIMIT == 2
MaxUtc == 1
MaxNotificationId == 4
MaxRegenerations == 1

Employees == 1..NUM_EMPLOYEES
EmployeeIds == 1..(NUM_EMPLOYEES + 1)

\* An optional value is a list of at most one element; a timestamp string is
\* the ISO form of an instant.
None == <<>>
isoformat(t) == <<t>>

valid_statuses == {"Safe", "Needs Help", "Unknown", "In Danger"}
StatusInputs == {"Safe", "Needs Help", "Lost"}
TimestampInputs == {None} \cup {isoformat(t) : t \in 0..MaxUtc}
EmployeeIdLists == {<<>>, <<1>>, <<1, 2>>, <<2, NUM_EMPLOYEES + 1>>}

\* crypto_utils.py.  The k-th key pair made: <<private key, public key PEM>>.
generate_key_pair(k) == <<k, <<"PUBLIC KEY", k>>>>

\* json.dumps(message_data, sort_keys=True)
message_bytes(employee_id, status, timestamp) ==
    <<employee_id, status, timestamp>>

\* An ECDSA signature: what verification can tell of it is the key that made
\* it and the bytes it was made over.
sign_status(private_key, employee_id, status, timestamp) ==
    <<private_key, message_bytes(employee_id, status, timestamp)>>

verify_signature(public_key_pem, employee_id, status, timestamp, signature) ==
    /\ Len(signature) = 2
    /\ public_key_pem = <<"PUBLIC KEY", signature[1]>>
    /\ signature[2] = message_bytes(employee_id, status, timestamp)

\* initialize_employees(), the keys_generated-th pairs onwards:
\* <<employees_db, private_keys_db>>.
initialize_employees(k) ==
    <<[i \in Employees |->
          [status |-> "Unknown", last_update |-> None,
           public_key |-> generate_key_pair(k + i)[2], signature |-> None,
           request_pending |-> FALSE]],
      [i \in Employees |-> generate_key_pair(k + i)[1]]>>

AccountabilityInit ==
    /\ MeshAtRest
    /\ call = [op |-> "none"]
    /\ employees_db = initialize_employees(0)[1]
    /\ private_keys_db = initialize_employees(0)[2]
    /\ keys_generated = NUM_EMPLOYEES
    /\ notifications_db = <<>>
    /\ notification_counter = 0
    /\ utcnow = 0

MeshRests == UNCHANGED <<worldVars, taskVars, now, requests, response, call>>

Notification(id, employee_id, status) ==
    [id |-> id, employee_id |-> employee_id, status |-> status]

\* create_notification: <<notifications_db, notification_counter>> after it.
create_notification(employee_id, status) ==
    IF employee_id \notin DOMAIN employees_db
    THEN <<notifications_db, notification_counter>>
    ELSE LET appended ==
                 Append(notifications_db,
                        Notification(notification_counter + 1, employee_id, status))
         IN <<IF Len(appended) > NOTIFICATION_LIMIT THEN Tail(appended)
              ELSE appended,
              notification_counter + 1>>

update_status(employee_id, status, given_timestamp) ==
    /\ notification_counter < MaxNotificationId
    /\ IF employee_id \notin DOMAIN employees_db \/ status \notin valid_statuses
       THEN UNCHANGED <<employees_db, notifications_db, notification_counter>>
       ELSE LET timestamp == IF given_timestamp # None THEN given_timestamp
                             ELSE isoformat(utcnow)
                signature == sign_status(private_keys_db[employee_id],
                                         employee_id, status, timestamp)
                created == create_notification(employee_id, status)
            IN /\ employees_db' =
                      [employees_db EXCEPT ![employee_id] =
                          [@ EXCEPT !.status = status,
                                    !.last_update = timestamp,
                                    !.signature = signature,
                                    !.request_pending = FALSE]]
               /\ notifications_db' = created[1]
               /\ notification_counter' = created[2]
    /\ UNCHANGED <<private_keys_db, keys_generated, utcnow>>
    /\ MeshRests

\* The loop of request_response over employee_ids[i..]:
\* <<employees_db, notifications_db, notification_counter>> after it.
RECURSIVE RequestLoop(_, _, _, _, _)
RequestLoop(db, notifications, counter, employee_ids, i) ==
    IF i > Len(employee_ids) THEN <<db, notifications, counter>>
    ELSE LET emp_id == employee_ids[i]
         IN IF emp_id \in DOMAIN db
            THEN RequestLoop(
                     [db EXCEPT ![emp_id].request_pending = TRUE],
                     Append(notifications,
                            Notification(counter + 1, emp_id, "Request")),
                     counter + 1, employee_ids, i + 1)
            ELSE RequestLoop(db, notifications, counter, employee_ids, i + 1)

request_response(employee_ids) ==
    /\ notification_counter + Len(employee_ids) <= MaxNotificationId
    /\ IF employee_ids = <<>>
       THEN UNCHANGED <<employees_db, notifications_db, notification_counter>>
       ELSE LET done == RequestLoop(employees_db, notifications_db,
                                    notification_counter, employee_ids, 1)
            IN /\ employees_db' = done[1]
               /\ notifications_db' = done[2]
               /\ notification_counter' = done[3]
    /\ UNCHANGED <<private_keys_db, keys_generated, utcnow>>
    /\ MeshRests

mark_employee_timeout(employee_id) ==
    /\ notification_counter < MaxNotificationId
    /\ IF employee_id \notin DOMAIN employees_db
       THEN UNCHANGED <<employees_db, notifications_db, notification_counter>>
       ELSE /\ employees_db' =
                   [employees_db EXCEPT ![employee_id] =
                       [@ EXCEPT !.status = "Needs Help",
                                 !.last_update = isoformat(utcnow),
                                 !.request_pending = FALSE]]
            /\ notification_counter' = notification_counter + 1
            /\ notifications_db' =
                   Append(notifications_db,
                          Notification(notification_counter + 1, employee_id,
                                       "Unresponsive"))
    /\ UNCHANGED <<private_keys_db, keys_generated, utcnow>>
    /\ MeshRests

clear_notifications ==
    /\ notifications_db' = <<>>
    /\ UNCHANGED <<employees_db, private_keys_db, notification_counter,
                   keys_generated, utcnow>>
    /\ MeshRests

reset_employees ==
    /\ employees_db' =
           [emp_id \in DOMAIN employees_db |->
               [employees_db[emp_id] EXCEPT !.status = "Unknown",
                                            !.last_update = None,
                                            !.signature = None]]
    /\ notifications_db' = <<>>
    /\ UNCHANGED <<private_keys_db, notification_counter, keys_generated, utcnow>>
    /\ MeshRests

regenerate_employees ==
    /\ keys_generated < NUM_EMPLOYEES * (1 + MaxRegenerations)
    /\ employees_db' = initialize_employees(keys_generated)[1]
    /\ private_keys_db' = initialize_employees(keys_generated)[2]
    /\ keys_generated' = keys_generated + NUM_EMPLOYEES
    /\ notifications_db' = <<>>
    /\ notification_counter' = 0
    /\ UNCHANGED utcnow
    /\ MeshRests

\* What verify_employee_signature reports as signature_valid.
verify_employee_signature(employee_id) ==
    LET employee == employees_db[employee_id]
    IN verify_signature(employee.public_key, employee_id, employee.status,
                        employee.last_update, employee.signature)

\* datetime.utcnow() moves on.
UtcAdvance ==
    /\ utcnow < MaxUtc
    /\ utcnow' = utcnow + 1
    /\ UNCHANGED <<employees_db, private_keys_db, notifications_db,
                   notification_counter, keys_generated>>
    /\ MeshRests

AccountabilityNext ==
    \/ \E employee_id \in EmployeeIds, status \in StatusInputs,
          given_timestamp \in TimestampInputs :
          update_status(employee_id, status, given_timestamp)
    \/ \E employee_ids \in EmployeeIdLists : request_response(employee_ids)
    \/ \E employee_id \in EmployeeIds : mark_employee_timeout(employee_id)
    \/ clear_notifications
    \/ reset_employees
    \/ regenerate_employees
    \/ UtcAdvance

AccountabilitySpec == AccountabilityInit /\ [][AccountabilityNext]_vars

\* --------------------------------------------------------------- C39
\* C39: the notification list of the accountability backend holds at most
\* NOTIFICATION_LIMIT notifications.
C39_NotificationBound == Len(notifications_db) <= NOTIFICATION_LIMIT

\* --------------------------------------------------------------- C40
\* C40: an employee record that holds a signature holds one that the verify
\* endpoint reports valid for the record's id, status and last_update.
C40_SignatureConsistent ==
    \A employee_id \in DOMAIN employees_db :
        employees_db[employee_id].signature # None
            => verify_employee_signature(employee_id)

====
